---- MODULE Spec2Model ----
(***************************************************************************)
(* Range-minimum-query engines (Naive, Dynamic Programming, Sparse Table,  *)
(* Block Decomposition, LCA over a Cartesian tree) behind the RMQBase      *)
(* template methods preprocess / query / queryDetailed / clear, with the   *)
(* update operations of the Naive and Block engines.                       *)
(*                                                                         *)
(* One engine instance (its kind and configuration fixed at construction)  *)
(* is driven by a sequential caller; a second RMQNaive instance receives   *)
(* the same preprocess / update / batchUpdate / clear calls, as in the     *)
(* compare-with-naive tests.  C++ vectors are functions on 0..n-1.         *)
(***************************************************************************)
EXTENDS Integers, Sequences, FiniteSets, TLC

(* ---------------------------------------------------------------- bounds *)
MaxLen == 5
MaxVal == 1
MaxBatch == 2
MaxBlockSize == 2

(* ----------------------------------------------------- program constants *)
MAX_ARRAY_SIZE == 1000000
DEFAULT_BLOCK_SIZE == 0
MAX_MEMORY == 536870912
SIZEOF_VALUE == 4
SIZEOF_INDEX == 8
INT_MAX == 2147483647
NO_NODE == -1

Kinds == {"NAIVE", "DYNAMIC_PROGRAMMING", "SPARSE_TABLE", "BLOCK_DECOMPOSITION", "LCA_BASED"}

Values == 0..MaxVal
Indices == 0..MaxLen

EmptyVec == [i \in {} |-> 0]

Size(v) == Cardinality(DOMAIN v)

Arrays == UNION {[0..(n - 1) -> Values] : n \in 0..MaxLen}

UpdatePairs == Indices \X Values

UpdateLists == UNION {[1..k -> UpdatePairs] : k \in 0..MaxBatch}

(* The call that fails for lack of memory, if any: none, the copy of the   *)
(* input into data_, the log table of the sparse table, or the derived     *)
(* tables / tree of the engine.                                            *)
AllocPoints == {"none", "data_copy", "log_table", "tables"}

VARIABLES
    kind, config,
    data_, preprocessed_, last_query_time_,
    dp_table_, min_index_table_,
    sparse_table_, index_table_, log_table_, max_level_,
    block_size_, num_blocks_, block_min_, block_min_index_,
    tree_nodes_, ancestors_, array_to_tree_, root_index_, max_log_,
    ref_data_, ref_preprocessed_,
    last

baseVars == <<data_, preprocessed_, last_query_time_>>
dpVars == <<dp_table_, min_index_table_>>
sparseVars == <<sparse_table_, index_table_, log_table_, max_level_>>
blockVars == <<block_size_, num_blocks_, block_min_, block_min_index_>>
lcaVars == <<tree_nodes_, ancestors_, array_to_tree_, root_index_, max_log_>>
derivedVars == <<dpVars, sparseVars, blockVars, lcaVars>>
engineVars == <<baseVars, derivedVars>>
refVars == <<ref_data_, ref_preprocessed_>>
ctorVars == <<kind, config>>
vars == <<ctorVars, engineVars, refVars, last>>

(* ------------------------------------------------------------- RMQBase *)

validateData_Inclusive(n) ==
    IF n = 0 THEN "InvalidData"
    ELSE IF n >= MAX_ARRAY_SIZE THEN "InvalidData"
    ELSE "ok"

validateData(n) ==
    IF n = 0 THEN "InvalidData"
    ELSE IF n > MAX_ARRAY_SIZE THEN "InvalidData"
    ELSE "ok"

validateQuery_BoundsFirst(d, left, right) ==
    IF Size(d) = 0 THEN "InvalidData"
    ELSE IF right >= Size(d) THEN "Bounds"
    ELSE IF left > right THEN "InvalidQuery"
    ELSE "ok"

validateQuery_LastIndexOut(d, left, right) ==
    IF left > right THEN "InvalidQuery"
    ELSE IF Size(d) = 0 THEN "InvalidData"
    ELSE IF right + 1 >= Size(d) THEN "Bounds"
    ELSE "ok"

validateQuery(d, left, right) ==
    IF left > right THEN "InvalidQuery"
    ELSE IF Size(d) = 0 THEN "InvalidData"
    ELSE IF right >= Size(d) THEN "Bounds"
    ELSE "ok"

ensurePreprocessed(p) == IF ~p THEN "NotPreprocessed" ELSE "ok"

(* RMQBase::findMinimumIndex, the default used by engines that do not      *)
(* override it: the first index of [left, right] holding min_value.        *)
RECURSIVE BaseFindFrom(_, _, _, _, _)
BaseFindFrom(d, i, right, min_value, left) ==
    IF i > right THEN left
    ELSE IF d[i] = min_value THEN i
    ELSE BaseFindFrom(d, i + 1, right, min_value, left)

(* ------------------------------------------------------------ RMQNaive *)

RECURSIVE NaiveScan(_, _, _, _)
NaiveScan(d, i, right, min_value) ==
    IF i > right THEN min_value
    ELSE NaiveScan(d, i + 1, right, IF d[i] < min_value THEN d[i] ELSE min_value)

NaivePerformQuery(d, left, right) == NaiveScan(d, left + 1, right, d[left])

RECURSIVE NaiveScanIndex(_, _, _, _, _)
NaiveScanIndex(d, i, right, min_value, min_index) ==
    IF i > right THEN min_index
    ELSE IF d[i] < min_value
         THEN NaiveScanIndex(d, i + 1, right, d[i], i)
         ELSE NaiveScanIndex(d, i + 1, right, min_value, min_index)

NaiveFindMinimumIndex(d, left, right) == NaiveScanIndex(d, left + 1, right, d[left], left)

(* ------------------------------------------------ RMQDynamicProgramming *)

(* required_memory > MAX_MEMORY with required_memory = n * n * (sizeof     *)
(* Value + sizeof Index) in 64-bit size_t, which does not wrap for n up to *)
(* MAX_ARRAY_SIZE; the product is compared by division to stay in range.   *)
DPMemoryExceeded(n) ==
    n > 0 /\ n > ((MAX_MEMORY \div (SIZEOF_VALUE + SIZEOF_INDEX)) \div n)

validateSizeForDP(n) ==
    IF n > MAX_ARRAY_SIZE THEN "InvalidData"
    ELSE IF DPMemoryExceeded(n) THEN "Allocation"
    ELSE "ok"

DPAllocate(d, n) ==
    [dp |-> [i \in 0..(n - 1) |-> [j \in 0..(n - 1) |-> IF i = j THEN d[i] ELSE 0]],
     mi |-> [i \in 0..(n - 1) |-> [j \in 0..(n - 1) |-> IF i = j THEN i ELSE 0]]]

DPTakeLeft_Strict(t, d, i, j) == t.dp[i][j - 1] < d[j]

DPTakeLeft(t, d, i, j) == t.dp[i][j - 1] <= d[j]

DPCell(t, d, i, j) ==
    IF DPTakeLeft(t, d, i, j)
    THEN [dp |-> [t.dp EXCEPT ![i][j] = t.dp[i][j - 1]],
          mi |-> [t.mi EXCEPT ![i][j] = t.mi[i][j - 1]]]
    ELSE [dp |-> [t.dp EXCEPT ![i][j] = d[j]],
          mi |-> [t.mi EXCEPT ![i][j] = j]]

RECURSIVE DPFillLength(_, _, _, _, _)
DPFillLength(t, d, n, length, i) ==
    IF i > n - length THEN t
    ELSE DPFillLength(DPCell(t, d, i, i + length - 1), d, n, length, i + 1)

RECURSIVE DPFill(_, _, _, _)
DPFill(t, d, n, length) ==
    IF length > n THEN t
    ELSE DPFill(DPFillLength(t, d, n, length, 0), d, n, length + 1)

DPBuild(d) == DPFill(DPAllocate(d, Size(d)), d, Size(d), 2)

DPPerformQuery(left, right) == dp_table_[left][right]

DPFindMinimumIndex(left, right) == min_index_table_[left][right]

(* ------------------------------------------------------- RMQSparseTable *)

Pow2(k) == 2 ^ k

RECURSIVE Log2Loop(_, _)
Log2Loop(n, log) == IF Pow2(log + 1) <= n THEN Log2Loop(n, log + 1) ELSE log

computeLog2(n) == IF n = 0 THEN 0 ELSE Log2Loop(n, 0)

RECURSIVE LogTableFill_FromPrevious(_, _, _)
LogTableFill_FromPrevious(t, n, i) ==
    IF i > n THEN t
    ELSE LogTableFill_FromPrevious([t EXCEPT ![i] = t[i - 1] + 1], n, i + 1)

RECURSIVE LogTableFill(_, _, _)
LogTableFill(t, n, i) ==
    IF i > n THEN t
    ELSE LogTableFill([t EXCEPT ![i] = t[i \div 2] + 1], n, i + 1)

precomputeLogTable(n) == LogTableFill([i \in 0..n |-> 0], n, 2)

SparseAllocate(d, n, levels) ==
    [st |-> [i \in 0..(n - 1) |-> [j \in 0..(levels - 1) |-> IF j = 0 THEN d[i] ELSE 0]],
     ix |-> [i \in 0..(n - 1) |-> [j \in 0..(levels - 1) |-> IF j = 0 THEN i ELSE 0]]]

SparseTakeLeft_Greater(t, i, mid, j) == t.st[i][j - 1] >= t.st[mid][j - 1]

SparseTakeLeft(t, i, mid, j) == t.st[i][j - 1] <= t.st[mid][j - 1]

SparseCell(t, i, j) ==
    LET mid == i + Pow2(j - 1)
    IN  IF SparseTakeLeft(t, i, mid, j)
        THEN [st |-> [t.st EXCEPT ![i][j] = t.st[i][j - 1]],
              ix |-> [t.ix EXCEPT ![i][j] = t.ix[i][j - 1]]]
        ELSE [st |-> [t.st EXCEPT ![i][j] = t.st[mid][j - 1]],
              ix |-> [t.ix EXCEPT ![i][j] = t.ix[mid][j - 1]]]

RECURSIVE SparseFillLevel_StopsEarly(_, _, _, _)
SparseFillLevel_StopsEarly(t, n, j, i) ==
    IF i + Pow2(j) < n THEN SparseFillLevel_StopsEarly(SparseCell(t, i, j), n, j, i + 1) ELSE t

RECURSIVE SparseFillLevel(_, _, _, _)
SparseFillLevel(t, n, j, i) ==
    IF i + Pow2(j) <= n THEN SparseFillLevel(SparseCell(t, i, j), n, j, i + 1) ELSE t

RECURSIVE SparseFill(_, _, _, _)
SparseFill(t, n, levels, j) ==
    IF j < levels THEN SparseFill(SparseFillLevel(t, n, j, 0), n, levels, j + 1) ELSE t

SparseBuild(d) ==
    LET n == Size(d)
        levels == computeLog2(n) + 1
        t == SparseFill(SparseAllocate(d, n, levels), n, levels, 1)
    IN  [st |-> t.st, ix |-> t.ix, log |-> precomputeLogTable(n), levels |-> levels]

SparsePerformQuery(left, right) ==
    LET k == log_table_[right - left + 1]
        a == sparse_table_[left][k]
        b == sparse_table_[right - Pow2(k) + 1][k]
    IN  IF b < a THEN b ELSE a

SparseFindMinimumIndex(left, right) ==
    LET k == log_table_[right - left + 1]
    IN  IF sparse_table_[left][k] <= sparse_table_[right - Pow2(k) + 1][k]
        THEN index_table_[left][k]
        ELSE index_table_[right - Pow2(k) + 1][k]

(* ------------------------------------------------ RMQBlockDecomposition *)

Min2(a, b) == IF b < a THEN b ELSE a

(* static_cast<size_t>(std::sqrt(n)): the integer part of the square root *)
ISqrt(n) == CHOOSE k \in 0..n : k * k <= n /\ (k + 1) * (k + 1) > n

calculateBlockSize_NoPlusOne(cfg, n) ==
    IF cfg.block_size # DEFAULT_BLOCK_SIZE THEN Min2(cfg.block_size, n)
    ELSE ISqrt(n)

calculateBlockSize_Unclamped(cfg, n) ==
    IF cfg.block_size # DEFAULT_BLOCK_SIZE THEN cfg.block_size
    ELSE ISqrt(n) + 1

calculateBlockSize(cfg, n) ==
    IF cfg.block_size # DEFAULT_BLOCK_SIZE THEN Min2(cfg.block_size, n)
    ELSE ISqrt(n) + 1

getBlockNumber(bs, idx) == idx \div bs

getBlockStart(bs, block) == block * bs

getBlockEnd(d, bs, block) == Min2((block + 1) * bs - 1, Size(d) - 1)

computeBlockMinimum(d, bs, block) ==
    LET start == getBlockStart(bs, block)
        end == getBlockEnd(d, bs, block)
    IN  [min |-> NaiveScan(d, start + 1, end, d[start]),
         idx |-> NaiveScanIndex(d, start + 1, end, d[start], start)]

BlockBuild(cfg, d) ==
    LET n == Size(d)
        bs == calculateBlockSize(cfg, n)
        nb == (n + bs - 1) \div bs
    IN  [block_size |-> bs, num_blocks |-> nb,
         min |-> [b \in 0..(nb - 1) |-> computeBlockMinimum(d, bs, b).min],
         idx |-> [b \in 0..(nb - 1) |-> computeBlockMinimum(d, bs, b).idx]]

queryPartialBlock(d, left, right) == NaiveScan(d, left + 1, right, d[left])

findMinIndexPartialBlock(d, left, right) == NaiveScanIndex(d, left + 1, right, d[left], left)

RECURSIVE BlockMiddleMin_SkipsFirst(_, _, _, _)
BlockMiddleMin_SkipsFirst(bmin, block, right_block, result) ==
    IF block + 1 < right_block
    THEN BlockMiddleMin_SkipsFirst(bmin, block + 1, right_block,
                                   Min2(result, bmin[block + 1]))
    ELSE result

RECURSIVE BlockMiddleMin(_, _, _, _)
BlockMiddleMin(bmin, block, right_block, result) ==
    IF block < right_block
    THEN BlockMiddleMin(bmin, block + 1, right_block, Min2(result, bmin[block]))
    ELSE result

BlockQueryOn(d, bs, bmin, left, right) ==
    LET left_block == getBlockNumber(bs, left)
        right_block == getBlockNumber(bs, right)
    IN  IF left_block = right_block THEN queryPartialBlock(d, left, right)
        ELSE LET r1 == Min2(INT_MAX, queryPartialBlock(d, left, getBlockEnd(d, bs, left_block)))
                 r2 == BlockMiddleMin(bmin, left_block + 1, right_block, r1)
             IN  Min2(r2, queryPartialBlock(d, getBlockStart(bs, right_block), right))

BlockMiddleTakes_OnTie(bmin, block, m) == bmin[block] <= m.val

BlockMiddleTakes(bmin, block, m) == bmin[block] < m.val

RECURSIVE BlockMiddleIndex(_, _, _, _, _)
BlockMiddleIndex(bmin, bidx, block, right_block, m) ==
    IF block < right_block
    THEN BlockMiddleIndex(bmin, bidx, block + 1, right_block,
             IF BlockMiddleTakes(bmin, block, m)
             THEN [val |-> bmin[block], idx |-> bidx[block]] ELSE m)
    ELSE m

BlockIndexOn(d, bs, bmin, bidx, left, right) ==
    LET left_block == getBlockNumber(bs, left)
        right_block == getBlockNumber(bs, right)
    IN  IF left_block = right_block THEN findMinIndexPartialBlock(d, left, right)
        ELSE LET p1 == findMinIndexPartialBlock(d, left, getBlockEnd(d, bs, left_block))
                 m1 == IF d[p1] < INT_MAX THEN [val |-> d[p1], idx |-> p1]
                       ELSE [val |-> INT_MAX, idx |-> left]
                 m2 == BlockMiddleIndex(bmin, bidx, left_block + 1, right_block, m1)
                 p3 == findMinIndexPartialBlock(d, getBlockStart(bs, right_block), right)
             IN  IF d[p3] < m2.val THEN p3 ELSE m2.idx

BlockPerformQuery(left, right) == BlockQueryOn(data_, block_size_, block_min_, left, right)

BlockFindMinimumIndex(left, right) ==
    BlockIndexOn(data_, block_size_, block_min_, block_min_index_, left, right)

(* ---------------------------------------------------------- RMQLCABased *)

NewNode(d, i) ==
    [value |-> d[i], array_index |-> i, left_child |-> NO_NODE,
     right_child |-> NO_NODE, parent |-> NO_NODE, depth |-> 0]

Top(stack) == stack[Len(stack)]

Pop(stack) == SubSeq(stack, 1, Len(stack) - 1)

PopsTop_Less(nodes, stack, i) == nodes[Top(stack)].value < nodes[i].value

(* the loop condition of the pop loop: the stack top is greater than the  *)
(* current element                                                        *)
PopsTop(nodes, stack, i) == nodes[Top(stack)].value > nodes[i].value

RECURSIVE PopGreater(_, _, _, _)
PopGreater(nodes, stack, i, last_popped) ==
    IF Len(stack) > 0 /\ PopsTop(nodes, stack, i)
    THEN PopGreater(nodes, Pop(stack), i, Top(stack))
    ELSE [stack |-> stack, last_popped |-> last_popped]

LinkNode_PoppedOnRight(nodes, stack, i) ==
    LET p == PopGreater(nodes, stack, i, NO_NODE)
        n1 == IF Len(p.stack) > 0
              THEN [nodes EXCEPT ![Top(p.stack)].right_child = i,
                                 ![i].parent = Top(p.stack)]
              ELSE nodes
        n2 == IF p.last_popped # NO_NODE
              THEN [n1 EXCEPT ![i].right_child = p.last_popped,
                              ![p.last_popped].parent = i]
              ELSE n1
    IN  [nodes |-> n2, stack |-> Append(p.stack, i)]

LinkNode(nodes, stack, i) ==
    LET p == PopGreater(nodes, stack, i, NO_NODE)
        n1 == IF Len(p.stack) > 0
              THEN [nodes EXCEPT ![Top(p.stack)].right_child = i,
                                 ![i].parent = Top(p.stack)]
              ELSE nodes
        n2 == IF p.last_popped # NO_NODE
              THEN [n1 EXCEPT ![i].left_child = p.last_popped,
                              ![p.last_popped].parent = i]
              ELSE n1
    IN  [nodes |-> n2, stack |-> Append(p.stack, i)]

RECURSIVE LinkAll(_, _, _, _)
LinkAll(nodes, stack, n, i) ==
    IF i < n
    THEN LET s == LinkNode(nodes, stack, i) IN LinkAll(s.nodes, s.stack, n, i + 1)
    ELSE nodes

RECURSIVE FindRoot(_, _, _)
FindRoot(nodes, n, i) ==
    IF i < n THEN (IF nodes[i].parent = NO_NODE THEN i ELSE FindRoot(nodes, n, i + 1))
    ELSE NO_NODE

RECURSIVE computeDepths(_, _, _)
computeDepths(nodes, node, depth) ==
    IF node = NO_NODE THEN nodes
    ELSE LET n0 == [nodes EXCEPT ![node].depth = depth]
             n1 == IF n0[node].left_child # NO_NODE
                   THEN computeDepths(n0, n0[node].left_child, depth + 1) ELSE n0
         IN  IF n1[node].right_child # NO_NODE
             THEN computeDepths(n1, n1[node].right_child, depth + 1) ELSE n1

buildCartesianTree(d) ==
    LET n == Size(d)
        linked == LinkAll([i \in 0..(n - 1) |-> NewNode(d, i)], <<>>, n, 0)
        root == FindRoot(linked, n, 0)
    IN  [nodes |-> IF root # NO_NODE THEN computeDepths(linked, root, 0) ELSE linked,
         root |-> root,
         array_to_tree |-> [i \in 0..(n - 1) |-> i]]

RECURSIVE MaxLogLoop(_, _)
MaxLogLoop(n, k) == IF Pow2(k) < n THEN MaxLogLoop(n, k + 1) ELSE k

computeMaxLog(n) == MaxLogLoop(n, 0) + 1

RECURSIVE LiftFill_OneStepUp(_, _, _, _)
LiftFill_OneStepUp(anc, n, levels, j) ==
    IF j < levels
    THEN LiftFill_OneStepUp([i \in 0..(n - 1) |->
                      [anc[i] EXCEPT ![j] = IF anc[i][j - 1] # NO_NODE
                                            THEN anc[anc[i][j - 1]][0]
                                            ELSE NO_NODE]],
                  n, levels, j + 1)
    ELSE anc

RECURSIVE LiftFill(_, _, _, _)
LiftFill(anc, n, levels, j) ==
    IF j < levels
    THEN LiftFill([i \in 0..(n - 1) |->
                      [anc[i] EXCEPT ![j] = IF anc[i][j - 1] # NO_NODE
                                            THEN anc[anc[i][j - 1]][j - 1]
                                            ELSE NO_NODE]],
                  n, levels, j + 1)
    ELSE anc

buildLCAStructure(nodes, root) ==
    LET n == Size(nodes)
        levels == computeMaxLog(n)
    IN  IF n = 0 \/ root = NO_NODE THEN [ancestors |-> EmptyVec, max_log |-> 0]
        ELSE [ancestors |->
                  LiftFill([i \in 0..(n - 1) |->
                               [j \in 0..(levels - 1) |->
                                   IF j = 0 THEN nodes[i].parent ELSE NO_NODE]],
                           n, levels, 1),
              max_log |-> levels]

LCABuild(d) ==
    LET t == buildCartesianTree(d)
        l == buildLCAStructure(t.nodes, t.root)
    IN  [nodes |-> t.nodes, root |-> t.root, array_to_tree |-> t.array_to_tree,
         ancestors |-> l.ancestors, max_log |-> l.max_log]

BitSet(k, i) == (k \div Pow2(i)) % 2 = 1

RECURSIVE KthLoop(_, _, _, _, _)
KthLoop(anc, levels, node, k, i) ==
    IF i < levels /\ node # NO_NODE
    THEN KthLoop(anc, levels, IF BitSet(k, i) THEN anc[node][i] ELSE node, k, i + 1)
    ELSE node

getKthAncestor(anc, levels, node, k) ==
    IF node = NO_NODE \/ k < 0 THEN NO_NODE ELSE KthLoop(anc, levels, node, k, 0)

RECURSIVE LiftBoth_ReturnsChild(_, _, _, _)
LiftBoth_ReturnsChild(anc, u, v, i) ==
    IF i >= 0
    THEN IF anc[u][i] # anc[v][i]
         THEN LiftBoth_ReturnsChild(anc, anc[u][i], anc[v][i], i - 1)
         ELSE LiftBoth_ReturnsChild(anc, u, v, i - 1)
    ELSE u

RECURSIVE LiftBoth(_, _, _, _)
LiftBoth(anc, u, v, i) ==
    IF i >= 0
    THEN IF anc[u][i] # anc[v][i]
         THEN LiftBoth(anc, anc[u][i], anc[v][i], i - 1)
         ELSE LiftBoth(anc, u, v, i - 1)
    ELSE anc[u][0]

findLCAOn(nodes, anc, levels, u0, v0) ==
    IF u0 = NO_NODE \/ v0 = NO_NODE THEN NO_NODE
    ELSE LET swap == nodes[u0].depth < nodes[v0].depth
             u1 == IF swap THEN v0 ELSE u0
             v == IF swap THEN u0 ELSE v0
             u == getKthAncestor(anc, levels, u1, nodes[u1].depth - nodes[v].depth)
         IN  IF u = v THEN u ELSE LiftBoth(anc, u, v, levels - 1)

findLCA(u, v) == findLCAOn(tree_nodes_, ancestors_, max_log_, u, v)

LCAPerformQuery(left, right) ==
    LET lca == findLCA(array_to_tree_[left], array_to_tree_[right])
    IN  IF lca = NO_NODE THEN [status |-> "AlgorithmFailure", value |-> 0]
        ELSE [status |-> "ok", value |-> tree_nodes_[lca].value]

LCAFindMinimumIndex(left, right) ==
    LET lca == findLCA(array_to_tree_[left], array_to_tree_[right])
    IN  IF lca = NO_NODE THEN [status |-> "AlgorithmFailure", value |-> 0]
        ELSE [status |-> "ok", value |-> tree_nodes_[lca].array_index]

(* ------------------------------------------- the engine behind RMQBase *)

supportsUpdate_SparseToo(k) == k \in {"NAIVE", "BLOCK_DECOMPOSITION", "SPARSE_TABLE"}

supportsUpdate(k) == k \in {"NAIVE", "BLOCK_DECOMPOSITION"}

Ok(v) == [status |-> "ok", value |-> v]

performQuery(left, right) ==
    CASE kind = "NAIVE" -> Ok(NaivePerformQuery(data_, left, right))
      [] kind = "DYNAMIC_PROGRAMMING" -> Ok(DPPerformQuery(left, right))
      [] kind = "SPARSE_TABLE" -> Ok(SparsePerformQuery(left, right))
      [] kind = "BLOCK_DECOMPOSITION" -> Ok(BlockPerformQuery(left, right))
      [] kind = "LCA_BASED" -> LCAPerformQuery(left, right)

findMinimumIndex(left, right) ==
    CASE kind = "NAIVE" -> Ok(NaiveFindMinimumIndex(data_, left, right))
      [] kind = "DYNAMIC_PROGRAMMING" -> Ok(DPFindMinimumIndex(left, right))
      [] kind = "SPARSE_TABLE" -> Ok(SparseFindMinimumIndex(left, right))
      [] kind = "BLOCK_DECOMPOSITION" -> Ok(BlockFindMinimumIndex(left, right))
      [] kind = "LCA_BASED" -> LCAFindMinimumIndex(left, right)

Fail(st) == [status |-> st, ret |-> <<>>]

query_ValidateFirst(left, right) ==
    IF validateQuery(data_, left, right) # "ok" THEN Fail(validateQuery(data_, left, right))
    ELSE IF ensurePreprocessed(preprocessed_) # "ok"
    THEN Fail(ensurePreprocessed(preprocessed_))
    ELSE LET q == performQuery(left, right)
         IN  IF q.status # "ok" THEN Fail(q.status)
             ELSE [status |-> "ok", ret |-> <<q.value>>]

(* RMQBase::query: the status and the returned value *)
query(left, right) ==
    IF ensurePreprocessed(preprocessed_) # "ok" THEN Fail(ensurePreprocessed(preprocessed_))
    ELSE IF validateQuery(data_, left, right) # "ok" THEN Fail(validateQuery(data_, left, right))
    ELSE LET q == performQuery(left, right)
         IN  IF q.status # "ok" THEN Fail(q.status)
             ELSE [status |-> "ok", ret |-> <<q.value>>]

(* RMQBase::queryDetailed: the status and <<minimum_value, minimum_index>> *)
queryDetailed(left, right) ==
    IF ensurePreprocessed(preprocessed_) # "ok" THEN Fail(ensurePreprocessed(preprocessed_))
    ELSE IF validateQuery(data_, left, right) # "ok" THEN Fail(validateQuery(data_, left, right))
    ELSE LET q == performQuery(left, right)
         IN  IF q.status # "ok" THEN Fail(q.status)
             ELSE LET x == findMinimumIndex(left, right)
                  IN  IF x.status # "ok" THEN Fail(x.status)
                      ELSE [status |-> "ok", ret |-> <<q.value, x.value>>]

(* the same two calls on the second, RMQNaive, instance *)
refQuery(left, right) ==
    IF ensurePreprocessed(ref_preprocessed_) # "ok"
    THEN Fail(ensurePreprocessed(ref_preprocessed_))
    ELSE IF validateQuery(ref_data_, left, right) # "ok"
    THEN Fail(validateQuery(ref_data_, left, right))
    ELSE [status |-> "ok", ret |-> <<NaivePerformQuery(ref_data_, left, right)>>]

refQueryDetailed(left, right) ==
    IF ensurePreprocessed(ref_preprocessed_) # "ok"
    THEN Fail(ensurePreprocessed(ref_preprocessed_))
    ELSE IF validateQuery(ref_data_, left, right) # "ok"
    THEN Fail(validateQuery(ref_data_, left, right))
    ELSE [status |-> "ok", ret |-> <<NaivePerformQuery(ref_data_, left, right),
                                     NaiveFindMinimumIndex(ref_data_, left, right)>>]

(* ------------------------------------- getters of the derived structures *)

RECURSIVE SumRowSizes(_, _)
SumRowSizes(table, i) ==
    IF i >= Size(table) THEN 0 ELSE Size(table[i]) + SumRowSizes(table, i + 1)

isPreprocessed == preprocessed_

size == Size(data_)

getBlockSize == block_size_

getNumBlocks == num_blocks_

getLevels == max_level_

getTableEntries == IF Size(sparse_table_) = 0 THEN 0 ELSE SumRowSizes(sparse_table_, 0)

getTableSize == IF Size(dp_table_) = 0 THEN 0 ELSE Size(dp_table_) * Size(dp_table_)

(* RMQLCABased::getTreeDepth: the largest stored depth, 0 for no tree *)
getTreeDepth ==
    IF Size(tree_nodes_) = 0 THEN 0
    ELSE CHOOSE m \in {0} \cup {tree_nodes_[i].depth : i \in DOMAIN tree_nodes_} :
             \A i \in DOMAIN tree_nodes_ : tree_nodes_[i].depth <= m

getTreeSize == Size(tree_nodes_)

(* RMQLCABased::verifyTree *)
(* RMQSparseTable::verifyTable: the base level is the array and every     *)
(* filled entry is the smaller of the two entries one level down          *)
verifyTable ==
    IF ~preprocessed_ \/ Size(sparse_table_) = 0 THEN FALSE
    ELSE /\ \A i \in 0..(Size(data_) - 1) : sparse_table_[i][0] = data_[i]
         /\ \A j \in 1..(max_level_ - 1) :
               \A i \in 0..(Size(data_) - 1) :
                   i + Pow2(j) <= Size(data_) =>
                       sparse_table_[i][j] =
                           Min2(sparse_table_[i][j - 1], sparse_table_[i + Pow2(j - 1)][j - 1])

ChildVerified(i, child) ==
    child # NO_NODE =>
        /\ child >= 0 /\ child < Size(tree_nodes_)
        /\ tree_nodes_[child].parent = i
        /\ ~(tree_nodes_[child].value < tree_nodes_[i].value)

verifyTree ==
    IF Size(tree_nodes_) = 0 \/ root_index_ = NO_NODE THEN FALSE
    ELSE /\ Cardinality({i \in DOMAIN tree_nodes_ : tree_nodes_[i].parent = NO_NODE}) = 1
         /\ \A i \in DOMAIN tree_nodes_ :
               /\ ChildVerified(i, tree_nodes_[i].left_child)
               /\ ChildVerified(i, tree_nodes_[i].right_child)

(* ----------------------------------------------------------- the state *)

NoCall == [op |-> "none", args |-> <<>>, status |-> "none", ret |-> <<>>,
           ref_status |-> "none", ref_ret |-> <<>>]

Call(op, args, res, ref) ==
    [op |-> op, args |-> args, status |-> res.status, ret |-> res.ret,
     ref_status |-> ref.status, ref_ret |-> ref.ret]

NotCalled == [status |-> "none", ret |-> <<>>]

Done == [status |-> "ok", ret |-> <<>>]

Configs ==
    {[enable_caching |-> FALSE, enable_parallel |-> FALSE, track_statistics |-> FALSE,
      block_size |-> b] : b \in 0..MaxBlockSize}

DerivedEmpty ==
    /\ dp_table_ = EmptyVec /\ min_index_table_ = EmptyVec
    /\ sparse_table_ = EmptyVec /\ index_table_ = EmptyVec
    /\ log_table_ = EmptyVec /\ max_level_ = 0
    /\ block_size_ = 0 /\ num_blocks_ = 0
    /\ block_min_ = EmptyVec /\ block_min_index_ = EmptyVec
    /\ tree_nodes_ = EmptyVec /\ ancestors_ = EmptyVec
    /\ array_to_tree_ = EmptyVec /\ root_index_ = NO_NODE /\ max_log_ = 0

Init ==
    /\ kind \in Kinds
    /\ config \in Configs
    /\ kind # "BLOCK_DECOMPOSITION" => config.block_size = DEFAULT_BLOCK_SIZE
    /\ data_ = EmptyVec /\ preprocessed_ = FALSE /\ last_query_time_ = "zero"
    /\ DerivedEmpty
    /\ ref_data_ = EmptyVec /\ ref_preprocessed_ = FALSE
    /\ last = NoCall

ClearDerived_KeepsBlocks ==
    /\ dp_table_' = EmptyVec /\ min_index_table_' = EmptyVec
    /\ sparse_table_' = EmptyVec /\ index_table_' = EmptyVec
    /\ log_table_' = EmptyVec /\ max_level_' = 0
    /\ UNCHANGED blockVars
    /\ tree_nodes_' = EmptyVec /\ ancestors_' = EmptyVec
    /\ array_to_tree_' = EmptyVec /\ root_index_' = NO_NODE /\ max_log_' = 0

(* clearTables / clearBlocks / clearTree of the engine's kind: the derived *)
(* structures of the other kinds are never built                           *)
ClearDerived ==
    /\ dp_table_' = EmptyVec /\ min_index_table_' = EmptyVec
    /\ sparse_table_' = EmptyVec /\ index_table_' = EmptyVec
    /\ log_table_' = EmptyVec /\ max_level_' = 0
    /\ block_size_' = 0 /\ num_blocks_' = 0
    /\ block_min_' = EmptyVec /\ block_min_index_' = EmptyVec
    /\ tree_nodes_' = EmptyVec /\ ancestors_' = EmptyVec
    /\ array_to_tree_' = EmptyVec /\ root_index_' = NO_NODE /\ max_log_' = 0

clear_KeepsData ==
    /\ data_' = data_
    /\ preprocessed_' = FALSE
    /\ last_query_time_' = "zero"
    /\ ClearDerived

clear_StaysPreprocessed ==
    /\ data_' = EmptyVec
    /\ preprocessed_' = preprocessed_
    /\ last_query_time_' = "zero"
    /\ ClearDerived

(* RMQBase::clear through the override of the engine's kind *)
clear ==
    /\ data_' = EmptyVec
    /\ preprocessed_' = FALSE
    /\ last_query_time_' = "zero"
    /\ ClearDerived

RefClear ==
    /\ ref_data_' = EmptyVec
    /\ ref_preprocessed_' = FALSE

(* RMQNaive::preprocess on the second instance *)
RefPreprocess(data) ==
    IF validateData(Size(data)) # "ok"
    THEN UNCHANGED refVars
    ELSE /\ ref_data_' = data
         /\ ref_preprocessed_' = TRUE

RefPreprocessResult(data) ==
    IF validateData(Size(data)) # "ok" THEN Fail(validateData(Size(data))) ELSE Done

(* --------------------------------------------------- RMQBase::preprocess *)

AllocPointsOf(k) ==
    CASE k = "NAIVE" -> {"none", "data_copy"}
      [] k = "SPARSE_TABLE" -> {"none", "data_copy", "log_table", "tables"}
      [] OTHER -> {"none", "data_copy", "tables"}

(* What performPreprocess of the engine's kind throws for an input of n    *)
(* elements: nothing, a std::bad_alloc that leaves it, or an RMQException  *)
(* (the size check of the DP engine, or a bad_alloc caught by the engine   *)
(* and rethrown as AllocationException).                                   *)
performPreprocessThrows(k, n, oom) ==
    CASE k = "NAIVE" -> "none"
      [] k = "DYNAMIC_PROGRAMMING" ->
            IF validateSizeForDP(n) # "ok" THEN "RMQException"
            ELSE IF oom = "tables" THEN "RMQException" ELSE "none"
      [] k = "SPARSE_TABLE" ->
            IF n = 0 THEN "none"
            ELSE IF oom = "log_table" THEN "bad_alloc"
            ELSE IF oom = "tables" THEN "RMQException" ELSE "none"
      [] k = "BLOCK_DECOMPOSITION" ->
            IF n = 0 THEN "none"
            ELSE IF oom = "tables" THEN "RMQException" ELSE "none"
      [] k = "LCA_BASED" ->
            IF n = 0 THEN "none"
            ELSE IF oom = "tables" THEN "RMQException" ELSE "none"

(* the catch clauses of RMQBase::preprocess *)
CaughtAs(thrown) == IF thrown = "bad_alloc" THEN "Allocation" ELSE "AlgorithmFailure"

(* performPreprocess of the engine's kind over the stored array d, when    *)
(* nothing is thrown; the Sparse, Block and LCA engines return at once     *)
(* when the array is empty                                                 *)
BuildDerived(d) ==
    /\ IF kind = "DYNAMIC_PROGRAMMING"
       THEN LET t == DPBuild(d)
            IN  dp_table_' = t.dp /\ min_index_table_' = t.mi
       ELSE UNCHANGED dpVars
    /\ IF kind = "SPARSE_TABLE" /\ Size(d) # 0
       THEN LET t == SparseBuild(d)
            IN  /\ sparse_table_' = t.st /\ index_table_' = t.ix
                /\ log_table_' = t.log /\ max_level_' = t.levels
       ELSE UNCHANGED sparseVars
    /\ IF kind = "BLOCK_DECOMPOSITION" /\ Size(d) # 0
       THEN LET t == BlockBuild(config, d)
            IN  /\ block_size_' = t.block_size /\ num_blocks_' = t.num_blocks
                /\ block_min_' = t.min /\ block_min_index_' = t.idx
       ELSE UNCHANGED blockVars
    /\ IF kind = "LCA_BASED" /\ Size(d) # 0
       THEN LET t == LCABuild(d)
            IN  /\ tree_nodes_' = t.nodes /\ ancestors_' = t.ancestors
                /\ array_to_tree_' = t.array_to_tree
                /\ root_index_' = t.root /\ max_log_' = t.max_log
       ELSE UNCHANGED lcaVars

StoreData_OnlyWhenEmpty(data) == data_' = IF Size(data_) = 0 THEN data ELSE data_

StoreData(data) == data_' = data

(* preprocess(data) with no allocation failing, on the engine and on the   *)
(* second instance                                                         *)
preprocessStatus(data) ==
    IF validateData(Size(data)) # "ok" THEN validateData(Size(data))
    ELSE IF performPreprocessThrows(kind, Size(data), "none") # "none"
         THEN CaughtAs(performPreprocessThrows(kind, Size(data), "none"))
    ELSE "ok"

preprocessEffect(data) ==
    IF validateData(Size(data)) # "ok" THEN UNCHANGED engineVars
    ELSE IF performPreprocessThrows(kind, Size(data), "none") # "none" THEN clear
    ELSE /\ StoreData(data)
         /\ preprocessed_' = TRUE
         /\ UNCHANGED last_query_time_
         /\ BuildDerived(data_')

Preprocess(data) ==
    /\ last.op = "none"
    /\ preprocessEffect(data)
    /\ RefPreprocess(data)
    /\ last' = Call("preprocess", <<Size(data), data>>, Fail(preprocessStatus(data)),
                    RefPreprocessResult(data))
    /\ UNCHANGED ctorVars

(* preprocess of an input of n >= 1 elements that throws whatever the      *)
(* elements are: the size is rejected by validateData or by the size check *)
(* of the DP table, or memory runs out at oom.  The copy of the input can  *)
(* only run out of memory when it has to allocate, that is when the input  *)
(* is longer than data_; the std::bad_alloc then leaves preprocess as it   *)
(* is.  Inputs longer than MaxLen are followed only here.  The second      *)
(* instance is not called.                                                 *)
(* 6689 is the least n whose n * n * (sizeof(Value) + sizeof(Index))       *)
(* exceeds MAX_MEMORY.                                                     *)
HugeSizes == {6689, MAX_ARRAY_SIZE, MAX_ARRAY_SIZE + 1}

throwingStatus(n, oom) ==
    IF validateData(n) # "ok" THEN validateData(n)
    ELSE IF oom = "data_copy" THEN "bad_alloc"
    ELSE CaughtAs(performPreprocessThrows(kind, n, oom))

throwingEffect(n, oom) ==
    IF validateData(n) # "ok" THEN UNCHANGED engineVars
    ELSE IF oom = "data_copy" THEN UNCHANGED engineVars
    ELSE clear

PreprocessThrows(n, oom) ==
    /\ last.op = "none"
    /\ oom \in AllocPointsOf(kind)
    /\ \/ validateData(n) # "ok" /\ oom = "none"
       \/ validateData(n) = "ok" /\ oom = "data_copy" /\ n > Size(data_)
       \/ validateData(n) = "ok" /\ oom # "data_copy"
              /\ performPreprocessThrows(kind, n, oom) # "none"
    /\ throwingEffect(n, oom)
    /\ last' = Call("preprocess", <<n>>, Fail(throwingStatus(n, oom)), NotCalled)
    /\ UNCHANGED <<ctorVars, refVars>>

(* ------------------------------------------------ query, queryDetailed *)

Measured(res, t) == IF res.status = "ok" THEN "measured" ELSE t

Query_ForgetsOnFailure(left, right) ==
    /\ last.op = "none"
    /\ last' = Call("query", <<left, right>>, query(left, right), refQuery(left, right))
    /\ last_query_time_' = Measured(query(left, right), last_query_time_)
    /\ preprocessed_' = (preprocessed_ /\ query(left, right).status = "ok")
    /\ UNCHANGED <<ctorVars, data_, derivedVars, ref_data_, ref_preprocessed_>>

Query(left, right) ==
    /\ last.op = "none"
    /\ last' = Call("query", <<left, right>>, query(left, right), refQuery(left, right))
    /\ last_query_time_' = Measured(query(left, right), last_query_time_)
    /\ UNCHANGED <<ctorVars, data_, preprocessed_, derivedVars, ref_data_, ref_preprocessed_>>

QueryDetailed(left, right) ==
    /\ last.op = "none"
    /\ last' = Call("queryDetailed", <<left, right>>, queryDetailed(left, right),
                    refQueryDetailed(left, right))
    /\ last_query_time_' = Measured(queryDetailed(left, right), last_query_time_)
    /\ UNCHANGED <<ctorVars, data_, preprocessed_, derivedVars, ref_data_, ref_preprocessed_>>

(* ------------------------------------------------- update, batchUpdate *)

updateStatus(p, d, index) ==
    IF ensurePreprocessed(p) # "ok" THEN ensurePreprocessed(p)
    ELSE IF index >= Size(d) THEN "Bounds"
    ELSE "ok"

WriteValue_OffByOne(d, index, value) ==
    [d EXCEPT ![IF index + 1 < Size(d) THEN index + 1 ELSE index] = value]

WriteValue(d, index, value) == [d EXCEPT ![index] = value]

RecomputeBlocks_Stale(d, blocks) == UNCHANGED blockVars

(* computeBlockMinimum(block) on the blocks of the set, over the array d *)
RecomputeBlocks_OnlyLowers(d, blocks) ==
    /\ block_min_' = [b \in DOMAIN block_min_ |->
                         IF b \in blocks /\ computeBlockMinimum(d, block_size_, b).min < block_min_[b]
                         THEN computeBlockMinimum(d, block_size_, b).min
                         ELSE block_min_[b]]
    /\ block_min_index_' = [b \in DOMAIN block_min_index_ |->
                               IF b \in blocks /\ computeBlockMinimum(d, block_size_, b).min < block_min_[b]
                               THEN computeBlockMinimum(d, block_size_, b).idx
                               ELSE block_min_index_[b]]
    /\ UNCHANGED <<block_size_, num_blocks_>>

RecomputeBlocks(d, blocks) ==
    /\ block_min_' = [b \in DOMAIN block_min_ |->
                         IF b \in blocks THEN computeBlockMinimum(d, block_size_, b).min
                         ELSE block_min_[b]]
    /\ block_min_index_' = [b \in DOMAIN block_min_index_ |->
                               IF b \in blocks THEN computeBlockMinimum(d, block_size_, b).idx
                               ELSE block_min_index_[b]]
    /\ UNCHANGED <<block_size_, num_blocks_>>

updateEffect(index, value) ==
    IF updateStatus(preprocessed_, data_, index) # "ok" THEN UNCHANGED engineVars
    ELSE /\ data_' = WriteValue(data_, index, value)
         /\ IF kind = "BLOCK_DECOMPOSITION"
            THEN RecomputeBlocks(WriteValue(data_, index, value),
                                 {getBlockNumber(block_size_, index)})
            ELSE UNCHANGED blockVars
         /\ UNCHANGED <<preprocessed_, last_query_time_, dpVars, sparseVars, lcaVars>>

RefUpdate(index, value) ==
    IF updateStatus(ref_preprocessed_, ref_data_, index) # "ok" THEN UNCHANGED refVars
    ELSE /\ ref_data_' = WriteValue(ref_data_, index, value)
         /\ UNCHANGED ref_preprocessed_

Update(index, value) ==
    /\ last.op = "none"
    /\ supportsUpdate(kind)
    /\ updateEffect(index, value)
    /\ RefUpdate(index, value)
    /\ last' = Call("update", <<index, value>>,
                    Fail(updateStatus(preprocessed_, data_, index)),
                    Fail(updateStatus(ref_preprocessed_, ref_data_, index)))
    /\ UNCHANGED ctorVars

batchStatus(p, d, updates) ==
    IF ensurePreprocessed(p) # "ok" THEN ensurePreprocessed(p)
    ELSE IF \E k \in DOMAIN updates : updates[k][1] >= Size(d) THEN "Bounds"
    ELSE "ok"

RECURSIVE ApplyUpdates_FirstWins(_, _, _)
ApplyUpdates_FirstWins(d, updates, k) ==
    IF k > Len(updates) THEN d
    ELSE WriteValue(ApplyUpdates_FirstWins(d, updates, k + 1), updates[k][1], updates[k][2])

RECURSIVE ApplyUpdates(_, _, _)
ApplyUpdates(d, updates, k) ==
    IF k > Len(updates) THEN d
    ELSE ApplyUpdates(WriteValue(d, updates[k][1], updates[k][2]), updates, k + 1)

TouchedBlocks_LastOnly(updates) ==
    IF Len(updates) = 0 THEN {}
    ELSE {getBlockNumber(block_size_, updates[Len(updates)][1])}

TouchedBlocks(updates) == {getBlockNumber(block_size_, updates[k][1]) : k \in DOMAIN updates}

batchUpdateEffect_WritesAsItValidates(updates) ==
    IF ensurePreprocessed(preprocessed_) # "ok" THEN UNCHANGED engineVars
    ELSE LET bad == {k \in DOMAIN updates : updates[k][1] >= Size(data_)}
             stop == IF bad = {} THEN Len(updates) + 1
                     ELSE CHOOSE k \in bad : \A m \in bad : k <= m
             written == SubSeq(updates, 1, stop - 1)
         IN  /\ data_' = ApplyUpdates(data_, written, 1)
             /\ IF kind = "BLOCK_DECOMPOSITION"
                THEN RecomputeBlocks(ApplyUpdates(data_, written, 1), TouchedBlocks(written))
                ELSE UNCHANGED blockVars
             /\ UNCHANGED <<preprocessed_, last_query_time_, dpVars, sparseVars, lcaVars>>

batchUpdateEffect(updates) ==
    IF batchStatus(preprocessed_, data_, updates) # "ok" THEN UNCHANGED engineVars
    ELSE /\ data_' = ApplyUpdates(data_, updates, 1)
         /\ IF kind = "BLOCK_DECOMPOSITION"
            THEN RecomputeBlocks(ApplyUpdates(data_, updates, 1), TouchedBlocks(updates))
            ELSE UNCHANGED blockVars
         /\ UNCHANGED <<preprocessed_, last_query_time_, dpVars, sparseVars, lcaVars>>

RefBatchUpdate(updates) ==
    IF batchStatus(ref_preprocessed_, ref_data_, updates) # "ok" THEN UNCHANGED refVars
    ELSE /\ ref_data_' = ApplyUpdates(ref_data_, updates, 1)
         /\ UNCHANGED ref_preprocessed_

BatchUpdate(updates) ==
    /\ last.op = "none"
    /\ supportsUpdate(kind)
    /\ batchUpdateEffect(updates)
    /\ RefBatchUpdate(updates)
    /\ last' = Call("batchUpdate", <<updates>>,
                    Fail(batchStatus(preprocessed_, data_, updates)),
                    Fail(batchStatus(ref_preprocessed_, ref_data_, updates)))
    /\ UNCHANGED ctorVars

(* RMQBlockDecomposition::rebuildBlocks; the second instance has no such   *)
(* operation                                                               *)
RebuildBlocks ==
    /\ last.op = "none"
    /\ kind = "BLOCK_DECOMPOSITION"
    /\ IF ~preprocessed_
       THEN /\ UNCHANGED engineVars
            /\ last' = Call("rebuildBlocks", <<>>, Fail("NotPreprocessed"), NotCalled)
       ELSE /\ RecomputeBlocks(data_, 0..(num_blocks_ - 1))
            /\ UNCHANGED <<baseVars, dpVars, sparseVars, lcaVars>>
            /\ last' = Call("rebuildBlocks", <<>>, Done, NotCalled)
    /\ UNCHANGED <<ctorVars, refVars>>

Clear ==
    /\ last.op = "none"
    /\ clear
    /\ RefClear
    /\ last' = Call("clear", <<>>, Done, Done)
    /\ UNCHANGED ctorVars

(* the caller takes the result or the exception of the call it made, and   *)
(* goes on to its next call                                                *)
Return ==
    /\ last.op # "none"
    /\ last' = NoCall
    /\ UNCHANGED <<ctorVars, engineVars, refVars>>

Next ==
    \/ \E data \in Arrays : Preprocess(data)
    \/ \E n \in (1..MaxLen) \cup HugeSizes, oom \in AllocPoints : PreprocessThrows(n, oom)
    \/ \E left \in Indices, right \in Indices : Query(left, right)
    \/ \E left \in Indices, right \in Indices : QueryDetailed(left, right)
    \/ \E index \in Indices, value \in Values : Update(index, value)
    \/ \E updates \in UpdateLists : BatchUpdate(updates)
    \/ RebuildBlocks
    \/ Clear
    \/ Return

Spec == Init /\ [][Next]_vars

(* ================================================================== *)
(* Properties                                                          *)
(* ================================================================== *)

(* the minimum of d[left..right], and the lowest index holding it *)
RangeMin(d, left, right) ==
    CHOOSE v \in {d[i] : i \in left..right} : \A i \in left..right : v <= d[i]

FirstArgMin(d, left, right) ==
    CHOOSE i \in left..right :
        /\ d[i] = RangeMin(d, left, right)
        /\ \A j \in left..(i - 1) : d[j] # RangeMin(d, left, right)

ValidRange(d, left, right) == left <= right /\ right < Size(d)

(* C1: on a preprocessed engine of any of the five kinds, query(left,     *)
(* right) over every valid range succeeds and returns the minimum of the  *)
(* stored array over [left, right], as a linear scan finds it.            *)
C1_QueryEqualsLinearScan ==
    preprocessed_ =>
        \A left \in Indices, right \in Indices :
            ValidRange(data_, left, right) =>
                query(left, right) =
                    [status |-> "ok", ret |-> <<RangeMin(data_, left, right)>>]

(* a query on the LCA engine over a range whose minimum is at neither end *)
C1_Witness ==
    /\ kind = "LCA_BASED"
    /\ last.op = "query" /\ last.status = "ok"
    /\ last.args = <<0, 4>>
    /\ data_[0] = 1 /\ data_[2] = 0 /\ data_[4] = 1
    /\ last.ret = <<0>>

(* C2: on a preprocessed engine of any of the five kinds, queryDetailed   *)
(* over every valid range returns the range minimum and, as its index,    *)
(* the lowest index of the range that holds the minimum.                  *)
C2_FirstOccurrence ==
    preprocessed_ =>
        \A left \in Indices, right \in Indices :
            ValidRange(data_, left, right) =>
                queryDetailed(left, right) =
                    [status |-> "ok",
                     ret |-> <<RangeMin(data_, left, right),
                               FirstArgMin(data_, left, right)>>]

(* the Block engine, three blocks of which the left, the middle and the   *)
(* right one all hold the minimum: the index returned is the leftmost     *)
C2_Witness ==
    /\ kind = "BLOCK_DECOMPOSITION" /\ block_size_ = 2 /\ num_blocks_ = 3
    /\ last.op = "queryDetailed" /\ last.status = "ok"
    /\ last.args = <<0, 4>>
    /\ data_[0] = 1 /\ data_[1] = 0 /\ data_[3] = 0 /\ data_[4] = 0
    /\ last.ret = <<0, 1>>

(* C3: a Naive engine and a Block engine preprocessed with the same array *)
(* and given the same update and batchUpdate calls answer query and        *)
(* queryDetailed alike, value and index, on every valid range, after       *)
(* every step.                                                             *)
C3_BlockAgreesWithNaive ==
    (kind = "BLOCK_DECOMPOSITION" /\ preprocessed_ /\ ref_preprocessed_) =>
        \A left \in Indices, right \in Indices :
            ValidRange(ref_data_, left, right) =>
                /\ query(left, right) = refQuery(left, right)
                /\ queryDetailed(left, right) = refQueryDetailed(left, right)
                /\ query(left, right).status = "ok"

(* a batch update that raised the minimum of the first block and lowered   *)
(* that of the last of three blocks                                        *)
C3_Witness ==
    /\ kind = "BLOCK_DECOMPOSITION" /\ preprocessed_ /\ ref_preprocessed_
    /\ block_size_ = 2 /\ num_blocks_ = 3
    /\ last.op = "batchUpdate" /\ last.status = "ok" /\ last.ref_status = "ok"
    /\ last.args = << << <<0, 1>>, <<4, 0>> >> >>
    /\ data_ = [i \in 0..4 |-> IF i = 4 THEN 0 ELSE 1]

(* C4: a successful update(i, v) on the Naive or the Block engine makes    *)
(* query(i, i) return v, leaves query(j, j) as it was for every other      *)
(* index j, and leaves size() and isPreprocessed() as they were.           *)
C4_UpdateFrame ==
    [][\A i \in Indices, v \in Values :
          (last'.op = "update" /\ last'.status = "ok" /\ last'.args = <<i, v>>) =>
              /\ query(i, i)' = [status |-> "ok", ret |-> <<v>>]
              /\ \A j \in Indices \ {i} : query(j, j)' = query(j, j)
              /\ Size(data_)' = Size(data_)
              /\ preprocessed_' = preprocessed_]_vars

(* update(2, 0) on a Block engine whose other elements are all 1 *)
C4_Witness ==
    /\ kind = "BLOCK_DECOMPOSITION" /\ preprocessed_
    /\ last.op = "update" /\ last.status = "ok" /\ last.args = <<2, 0>>
    /\ data_ = [i \in 0..4 |-> IF i = 2 THEN 0 ELSE 1]

(* what query and queryDetailed return on a fresh engine preprocessed      *)
(* with A and nothing else                                                 *)
AnswerOn(A, left, right) ==
    IF left > right THEN Fail("InvalidQuery")
    ELSE IF right >= Size(A) THEN Fail("Bounds")
    ELSE [status |-> "ok", ret |-> <<RangeMin(A, left, right)>>]

DetailedAnswerOn(A, left, right) ==
    IF left > right THEN Fail("InvalidQuery")
    ELSE IF right >= Size(A) THEN Fail("Bounds")
    ELSE [status |-> "ok",
          ret |-> <<RangeMin(A, left, right), FirstArgMin(A, left, right)>>]

(* C5: after a successful preprocess(A) the results of query and           *)
(* queryDetailed are those of A alone, whatever preprocess, update and     *)
(* clear calls the engine saw before; so preprocessing twice with A gives  *)
(* the results of preprocessing once.                                      *)
C5_PreprocessDependsOnArrayOnly ==
    (last.op = "preprocess" /\ last.status = "ok") =>
        \A left \in Indices, right \in Indices :
            /\ query(left, right) = AnswerOn(last.args[2], left, right)
            /\ queryDetailed(left, right) = DetailedAnswerOn(last.args[2], left, right)

(* preprocess of a two-element array on an LCA engine that has answered a  *)
(* query before, so has been preprocessed before                           *)
C5_Witness ==
    /\ kind = "LCA_BASED"
    /\ last.op = "preprocess" /\ last.status = "ok"
    /\ last.args[1] = 2 /\ last.args[2][1] = 0
    /\ last_query_time_ = "measured"

GuardedOps == {"query", "queryDetailed", "update", "batchUpdate", "rebuildBlocks"}

(* C6: query, queryDetailed, update, batchUpdate and rebuildBlocks called  *)
(* on an engine that is not preprocessed fail with NotPreprocessed         *)
(* whatever their arguments, invalid ranges and indices included.          *)
C6_NotPreprocessedFirst ==
    [][(~preprocessed_ /\ last'.op \in GuardedOps) =>
          /\ last'.status = "NotPreprocessed"
          /\ UNCHANGED engineVars]_vars

(* query(3, 2) on an engine that holds no array *)
C6_Witness ==
    /\ ~preprocessed_ /\ Size(data_) = 0
    /\ last.op = "query" /\ last.args = <<3, 2>>
    /\ last.status = "NotPreprocessed"

(* C7: on a preprocessed engine query and queryDetailed with left > right  *)
(* fail with InvalidQuery for every right, also past the end of the        *)
(* array, and leave the engine as it was.                                  *)
C7_InvalidQuery ==
    [][\A left \in Indices, right \in Indices :
          (/\ preprocessed_
           /\ last'.op \in {"query", "queryDetailed"}
           /\ last'.args = <<left, right>>
           /\ left > right) =>
              /\ last'.status = "InvalidQuery"
              /\ UNCHANGED engineVars]_vars

(* queryDetailed(4, 3) on a two-element array *)
C7_Witness ==
    /\ preprocessed_ /\ Size(data_) = 2
    /\ last.op = "queryDetailed" /\ last.args = <<4, 3>>
    /\ last.status = "InvalidQuery"

(* C8: on a preprocessed engine query and queryDetailed with               *)
(* left <= right and right >= size() fail with Bounds and leave the        *)
(* engine as it was; with left <= right < size() they fail with none of    *)
(* Bounds, InvalidQuery, InvalidData.                                      *)
C8_Bounds ==
    [][\A left \in Indices, right \in Indices :
          (/\ preprocessed_
           /\ last'.op \in {"query", "queryDetailed"}
           /\ last'.args = <<left, right>>
           /\ left <= right) =>
              IF right >= Size(data_)
              THEN last'.status = "Bounds" /\ UNCHANGED engineVars
              ELSE last'.status \notin {"Bounds", "InvalidQuery", "InvalidData"}]_vars

(* query(2, 2) on a two-element array: right = size() *)
C8_Witness ==
    /\ preprocessed_ /\ Size(data_) = 2
    /\ last.op = "query" /\ last.args = <<2, 2>>
    /\ last.status = "Bounds"

(* C9: preprocess fails with InvalidData exactly when the input is empty   *)
(* or longer than MAX_ARRAY_SIZE; an input of MAX_ARRAY_SIZE elements is   *)
(* not rejected as invalid data.                                           *)
C9_InvalidData ==
    last.op = "preprocess" =>
        (last.status = "InvalidData" <=>
            (last.args[1] = 0 \/ last.args[1] > MAX_ARRAY_SIZE))

(* an input of MAX_ARRAY_SIZE elements passes validateData and reaches the *)
(* size check of the DP table                                              *)
C9_Witness ==
    /\ kind = "DYNAMIC_PROGRAMMING"
    /\ last.op = "preprocess" /\ last.args = <<MAX_ARRAY_SIZE>>
    /\ last.status = "AlgorithmFailure"

PreprocessFailures == {"InvalidData", "Allocation", "AlgorithmFailure"}

DPBuiltFor(d) ==
    /\ DOMAIN dp_table_ = DOMAIN d /\ DOMAIN min_index_table_ = DOMAIN d
    /\ \A i \in DOMAIN d, j \in DOMAIN d :
          i <= j => /\ dp_table_[i][j] = RangeMin(d, i, j)
                    /\ min_index_table_[i][j] = FirstArgMin(d, i, j)

SparseBuiltFor(d) ==
    /\ max_level_ >= 1
    /\ Pow2(max_level_ - 1) <= Size(d) /\ Size(d) < Pow2(max_level_)
    /\ DOMAIN log_table_ = 0..Size(d)
    /\ \A k \in 1..Size(d) :
          Pow2(log_table_[k]) <= k /\ k < Pow2(log_table_[k] + 1)
    /\ DOMAIN sparse_table_ = DOMAIN d /\ DOMAIN index_table_ = DOMAIN d
    /\ \A i \in DOMAIN d, j \in 0..(max_level_ - 1) :
          i + Pow2(j) <= Size(d) =>
              /\ sparse_table_[i][j] = RangeMin(d, i, i + Pow2(j) - 1)
              /\ index_table_[i][j] = FirstArgMin(d, i, i + Pow2(j) - 1)

BlockBuiltFor(d) ==
    /\ block_size_ >= 1
    /\ (num_blocks_ - 1) * block_size_ < Size(d)
    /\ Size(d) <= num_blocks_ * block_size_
    /\ DOMAIN block_min_ = 0..(num_blocks_ - 1)
    /\ DOMAIN block_min_index_ = 0..(num_blocks_ - 1)
    /\ \A b \in 0..(num_blocks_ - 1) :
          LET first == b * block_size_
              final == Min2((b + 1) * block_size_, Size(d)) - 1
          IN  /\ block_min_[b] = RangeMin(d, first, final)
              /\ block_min_index_[b] = FirstArgMin(d, first, final)

LCABuiltFor(d) ==
    /\ DOMAIN tree_nodes_ = DOMAIN d /\ DOMAIN array_to_tree_ = DOMAIN d
    /\ DOMAIN ancestors_ = DOMAIN d
    /\ max_log_ >= 1 /\ Pow2(max_log_ - 1) >= Size(d)
    /\ root_index_ = FirstArgMin(d, 0, Size(d) - 1)
    /\ \A i \in DOMAIN d :
          /\ tree_nodes_[i].value = d[i] /\ tree_nodes_[i].array_index = i
          /\ array_to_tree_[i] = i
          /\ ancestors_[i][0] = tree_nodes_[i].parent
          /\ (tree_nodes_[i].parent = NO_NODE) = (i = root_index_)
          /\ \A j \in 1..(max_log_ - 1) :
                ancestors_[i][j] =
                    IF ancestors_[i][j - 1] = NO_NODE THEN NO_NODE
                    ELSE ancestors_[ancestors_[i][j - 1]][j - 1]

BuiltFor(d) ==
    /\ IF kind = "DYNAMIC_PROGRAMMING" THEN DPBuiltFor(d)
       ELSE dp_table_ = EmptyVec /\ min_index_table_ = EmptyVec
    /\ IF kind = "SPARSE_TABLE" THEN SparseBuiltFor(d)
       ELSE /\ sparse_table_ = EmptyVec /\ index_table_ = EmptyVec
            /\ log_table_ = EmptyVec /\ max_level_ = 0
    /\ IF kind = "BLOCK_DECOMPOSITION" THEN BlockBuiltFor(d)
       ELSE /\ block_size_ = 0 /\ num_blocks_ = 0
            /\ block_min_ = EmptyVec /\ block_min_index_ = EmptyVec
    /\ IF kind = "LCA_BASED" THEN LCABuiltFor(d)
       ELSE /\ tree_nodes_ = EmptyVec /\ ancestors_ = EmptyVec
            /\ array_to_tree_ = EmptyVec /\ root_index_ = NO_NODE /\ max_log_ = 0

(* C11: in every reachable state the engine is either un-preprocessed      *)
(* with an empty array copy and empty derived structures, or preprocessed  *)
(* with a non-empty array and derived structures completely built for it.  *)
C11_EmptyOrBuilt ==
    IF preprocessed_
    THEN Size(data_) >= 1 /\ BuiltFor(data_)
    ELSE Size(data_) = 0 /\ DerivedEmpty

(* a Sparse engine after a preprocess whose log table ran out of memory *)
C11_Witness ==
    /\ kind = "SPARSE_TABLE"
    /\ last.op = "preprocess" /\ last.status = "Allocation" /\ last.args = <<3>>
    /\ ~preprocessed_ /\ Size(data_) = 0 /\ log_table_ = EmptyVec

(* C12 as claimed: on the DP engine a preprocess of n elements whose       *)
(* n * n * (sizeof(Value) + sizeof(Index)) exceeds the 512 MiB ceiling,    *)
(* the copy of the input having succeeded, is seen by its caller to fail   *)
(* with Allocation, and leaves the engine un-preprocessed with empty       *)
(* tables.                                                                 *)
C12_CeilingFailsWithAllocation ==
    (/\ kind = "DYNAMIC_PROGRAMMING"
     /\ last.op = "preprocess"
     /\ validateData(last.args[1]) = "ok"
     /\ DPMemoryExceeded(last.args[1])
     /\ last.status # "bad_alloc") =>
        /\ last.status = "Allocation"
        /\ ~preprocessed_
        /\ dp_table_ = EmptyVec /\ min_index_table_ = EmptyVec

(* C13: on a preprocessed Naive or Block engine update with an index at    *)
(* or past size() and batchUpdate with at least one such index, wherever   *)
(* it sits in the list, fail with Bounds and change no array element, no   *)
(* block minimum and no block argmin.                                      *)
C13_UpdateBounds ==
    [][/\ \A index \in Indices, value \in Values :
              (/\ preprocessed_
               /\ last'.op = "update" /\ last'.args = <<index, value>>
               /\ index >= Size(data_)) =>
                  last'.status = "Bounds" /\ UNCHANGED engineVars
       /\ \A updates \in UpdateLists :
              (/\ preprocessed_
               /\ last'.op = "batchUpdate" /\ last'.args = <<updates>>
               /\ \E k \in DOMAIN updates : updates[k][1] >= Size(data_)) =>
                  last'.status = "Bounds" /\ UNCHANGED engineVars]_vars

(* a batch on a Block engine whose first pair is in range and would lower  *)
(* element 0, and whose second pair is out of range: element 0 is as it    *)
(* was                                                                     *)
C13_Witness ==
    /\ kind = "BLOCK_DECOMPOSITION" /\ preprocessed_ /\ Size(data_) = 5
    /\ last.op = "batchUpdate" /\ last.status = "Bounds"
    /\ last.args = << << <<0, 0>>, <<5, 0>> >> >>
    /\ data_[0] = 1 /\ block_min_[0] = 1

DistinctIndices(updates) ==
    \A k \in DOMAIN updates, m \in DOMAIN updates :
        updates[k][1] = updates[m][1] => k = m

PermutationsOf(updates) ==
    {[k \in DOMAIN updates |-> updates[f[k]]] : f \in Permutations(DOMAIN updates)}

(* C14: a successful batchUpdate of pairs with pairwise distinct indices   *)
(* leaves the array, the block minima and argmins and every query result   *)
(* that any permutation of the list leads to.                              *)
C14_BatchOrderIrrelevant ==
    [][\A updates \in UpdateLists :
          (/\ last'.op = "batchUpdate" /\ last'.status = "ok"
           /\ last'.args = <<updates>>
           /\ DistinctIndices(updates)) =>
              \A permuted \in PermutationsOf(updates) :
                  LET d == ApplyUpdates(data_, permuted, 1)
                  IN  /\ data_' = d
                      /\ kind = "BLOCK_DECOMPOSITION" =>
                            \A b \in 0..(num_blocks_ - 1) :
                                LET first == b * block_size_
                                    final == Min2((b + 1) * block_size_, Size(d)) - 1
                                IN  /\ block_min_'[b] = RangeMin(d, first, final)
                                    /\ block_min_index_'[b] = FirstArgMin(d, first, final)
                      /\ \A left \in Indices, right \in Indices :
                            /\ query(left, right)' = AnswerOn(d, left, right)
                            /\ queryDetailed(left, right)' =
                                   DetailedAnswerOn(d, left, right)]_vars

(* a batch of two pairs given in descending index order, in two blocks *)
C14_Witness ==
    /\ kind = "BLOCK_DECOMPOSITION" /\ preprocessed_
    /\ block_size_ = 2 /\ num_blocks_ = 2
    /\ last.op = "batchUpdate" /\ last.status = "ok"
    /\ last.args = << << <<3, 0>>, <<1, 1>> >> >>
    /\ data_ = [i \in 0..3 |-> IF i = 3 THEN 0 ELSE 1]

(* the empty engine as its interface shows it *)
EngineEmpty ==
    /\ ~isPreprocessed /\ size = 0
    /\ getNumBlocks = 0 /\ getBlockSize = 0
    /\ getLevels = 0 /\ getTableEntries = 0
    /\ getTableSize = 0 /\ getTreeSize = 0
    /\ DerivedEmpty
    /\ \A left \in Indices, right \in Indices :
          /\ query(left, right) = Fail("NotPreprocessed")
          /\ queryDetailed(left, right) = Fail("NotPreprocessed")

(* C15: clear() leaves every engine, preprocessed or already empty,        *)
(* un-preprocessed with size 0 and all derived state empty, every query    *)
(* failing with NotPreprocessed; and the empty engine stays so through     *)
(* every call but a successful preprocess.                                 *)
C15_ClearEmpties ==
    [][/\ last'.op = "clear" => EngineEmpty'
       /\ (EngineEmpty /\ ~(last'.op = "preprocess" /\ last'.status = "ok")) =>
              EngineEmpty']_vars

(* an LCA engine right after clear() *)
C15_Witness ==
    /\ kind = "LCA_BASED"
    /\ last.op = "clear" /\ last.status = "ok"
    /\ EngineEmpty /\ root_index_ = NO_NODE

ChildrenOf(i) == {tree_nodes_[i].left_child, tree_nodes_[i].right_child} \ {NO_NODE}

(* C16: on a preprocessed LCA engine, whatever the stored array, the tree  *)
(* has exactly one node without a parent, which root_index_ names; every   *)
(* child link leads to a node whose parent link leads back; no child has   *)
(* a value below its parent's; verifyTree() returns true.                  *)
C16_CartesianTreeShape ==
    (kind = "LCA_BASED" /\ preprocessed_) =>
        /\ DOMAIN tree_nodes_ = DOMAIN data_
        /\ \E root \in DOMAIN tree_nodes_ :
              /\ root = root_index_
              /\ \A i \in DOMAIN tree_nodes_ :
                    (tree_nodes_[i].parent = NO_NODE) = (i = root)
        /\ \A i \in DOMAIN tree_nodes_ :
              \A child \in ChildrenOf(i) :
                  /\ child \in DOMAIN tree_nodes_
                  /\ tree_nodes_[child].parent = i
                  /\ tree_nodes_[i].value <= tree_nodes_[child].value
        /\ verifyTree

(* the tree of [1, 0, 1, 0, 1]: the second 0 hangs to the right of the     *)
(* first, each 1 is a leaf                                                 *)
C16_Witness ==
    /\ kind = "LCA_BASED" /\ preprocessed_
    /\ last.op = "preprocess" /\ last.status = "ok"
    /\ data_ = [i \in 0..4 |-> (i + 1) % 2]
    /\ root_index_ = 1
    /\ tree_nodes_[1].left_child = 0 /\ tree_nodes_[1].right_child = 3
    /\ tree_nodes_[3].left_child = 2 /\ tree_nodes_[3].right_child = 4

(* the nodes an in-order traversal from node visits, in visiting order;   *)
(* fuel bounds the depth of the descent                                    *)
RECURSIVE InOrder(_, _)
InOrder(node, fuel) ==
    IF node = NO_NODE \/ fuel = 0 THEN <<>>
    ELSE InOrder(tree_nodes_[node].left_child, fuel - 1)
             \o <<node>>
             \o InOrder(tree_nodes_[node].right_child, fuel - 1)

(* C17: on a preprocessed LCA engine the in-order traversal of the tree    *)
(* from the root visits the nodes 0, 1, ..., n-1 in this order, each once, *)
(* and the values visited are the stored array.                            *)
C17_InOrderIsArray ==
    (kind = "LCA_BASED" /\ preprocessed_) =>
        LET visit == InOrder(root_index_, Size(data_))
        IN  /\ visit = [k \in 1..Size(data_) |-> k - 1]
            /\ [k \in 1..Len(visit) |-> tree_nodes_[visit[k]].value]
                   = [k \in 1..Size(data_) |-> data_[k - 1]]
            /\ \A i \in DOMAIN data_ : tree_nodes_[i].array_index = i

(* the tree of [1, 1, 0, 1, 0]: root 2, reached from node 0 by a left link *)
(* and leading to node 4 by a right link                                   *)
C17_Witness ==
    /\ kind = "LCA_BASED" /\ preprocessed_
    /\ last.op = "preprocess" /\ last.status = "ok"
    /\ data_ = [i \in 0..4 |-> IF i \in {2, 4} THEN 0 ELSE 1]
    /\ root_index_ = 2
    /\ tree_nodes_[2].left_child = 0 /\ tree_nodes_[0].right_child = 1
    /\ tree_nodes_[2].right_child = 4 /\ tree_nodes_[4].left_child = 3
    /\ InOrder(root_index_, 5) = <<0, 1, 2, 3, 4>>

(* node and the nodes above it, by the parent links *)
RECURSIVE AncestorsOf(_, _)
AncestorsOf(node, fuel) ==
    IF node = NO_NODE \/ fuel = 0 THEN {}
    ELSE {node} \cup AncestorsOf(tree_nodes_[node].parent, fuel - 1)

CommonAncestors(u, v) ==
    AncestorsOf(u, Size(tree_nodes_)) \cap AncestorsOf(v, Size(tree_nodes_))

IsLowestCommonAncestor(c, u, v) ==
    /\ c \in CommonAncestors(u, v)
    /\ \A a \in CommonAncestors(u, v) : a \in AncestorsOf(c, Size(tree_nodes_))

(* C18: on a preprocessed LCA engine, for every valid range the lookup of  *)
(* the nodes of left and right returns a node, which is their lowest       *)
(* common ancestor and holds the minimum of the range; query and           *)
(* queryDetailed do not fail with AlgorithmFailure.                        *)
C18_LookupFindsLowestCommonAncestor ==
    (kind = "LCA_BASED" /\ preprocessed_) =>
        \A left \in Indices, right \in Indices :
            ValidRange(data_, left, right) =>
                LET lca == findLCA(array_to_tree_[left], array_to_tree_[right])
                IN  /\ lca # NO_NODE
                    /\ lca \in DOMAIN tree_nodes_
                    /\ IsLowestCommonAncestor(lca, array_to_tree_[left],
                                              array_to_tree_[right])
                    /\ tree_nodes_[lca].value = RangeMin(data_, left, right)
                    /\ query(left, right).status # "AlgorithmFailure"
                    /\ queryDetailed(left, right).status # "AlgorithmFailure"

(* queryDetailed(1, 3) on [1, 1, 0, 1, 0]: nodes 1 and 3 sit at the same   *)
(* depth in different subtrees of the root, node 2                         *)
C18_Witness ==
    /\ kind = "LCA_BASED" /\ preprocessed_
    /\ data_ = [i \in 0..4 |-> IF i \in {2, 4} THEN 0 ELSE 1]
    /\ last.op = "queryDetailed" /\ last.status = "ok"
    /\ last.args = <<1, 3>> /\ last.ret = <<0, 2>>
    /\ tree_nodes_[1].depth = tree_nodes_[3].depth
    /\ findLCA(1, 3) = 2

(* the least k with k * k >= n, and the least q with q * m >= n *)
CeilSqrt(n) == CHOOSE k \in 0..n : k * k >= n /\ \A m \in 0..(k - 1) : m * m < n

CeilDiv(n, m) == CHOOSE q \in 0..n : q * m >= n /\ (q - 1) * m < n

DefaultBlockEngine ==
    /\ kind = "BLOCK_DECOMPOSITION" /\ preprocessed_
    /\ config.block_size = DEFAULT_BLOCK_SIZE

(* C19 as claimed: on a preprocessed Block engine with no block size       *)
(* configured, getBlockSize() is ceil(sqrt(n)) + 1 for the n elements      *)
(* stored.                                                                 *)
C19_DefaultIsCeilSqrtPlusOne ==
    DefaultBlockEngine => getBlockSize = CeilSqrt(size) + 1

(* C19 amended: on a preprocessed Block engine with no block size          *)
(* configured, getBlockSize() is floor(sqrt(n)) + 1: the block size s      *)
(* with (s - 1)^2 <= n < s^2.                                              *)
C19_DefaultIsFloorSqrtPlusOne ==
    DefaultBlockEngine =>
        /\ getBlockSize >= 1
        /\ (getBlockSize - 1) * (getBlockSize - 1) <= size
        /\ size < getBlockSize * getBlockSize

(* five elements, default configuration: blocks of 3, where                *)
(* ceil(sqrt(5)) + 1 is 4                                                  *)
C19_Witness ==
    /\ DefaultBlockEngine
    /\ last.op = "preprocess" /\ last.status = "ok"
    /\ size = 5 /\ getBlockSize = 3 /\ getNumBlocks = 2
    /\ CeilSqrt(5) + 1 = 4

(* C20: on a preprocessed Block engine configured with block size b >= 1   *)
(* over n elements getBlockSize() is min(b, n) and getNumBlocks() is       *)
(* ceil(n / min(b, n)); in every configuration, the default included,      *)
(* getBlockSize() * getNumBlocks() >= n and every block holds at least     *)
(* one element.                                                            *)
C20_BlockGeometry ==
    (kind = "BLOCK_DECOMPOSITION" /\ preprocessed_) =>
        /\ config.block_size >= 1 =>
              /\ getBlockSize = Min2(config.block_size, size)
              /\ getNumBlocks = CeilDiv(size, Min2(config.block_size, size))
        /\ getBlockSize * getNumBlocks >= size
        /\ getNumBlocks >= 1
        /\ \A block \in 0..(getNumBlocks - 1) :
              /\ getBlockStart(block_size_, block) < size
              /\ getBlockStart(block_size_, block)
                     <= getBlockEnd(data_, block_size_, block)
              /\ getBlockEnd(data_, block_size_, block) < size

(* block size 2 configured, five elements: three blocks, the last of one   *)
(* element                                                                 *)
C20_Witness ==
    /\ kind = "BLOCK_DECOMPOSITION" /\ preprocessed_
    /\ config.block_size = 2
    /\ last.op = "preprocess" /\ last.status = "ok"
    /\ size = 5 /\ getBlockSize = 2 /\ getNumBlocks = 3
    /\ getBlockStart(block_size_, 2) = 4 /\ getBlockEnd(data_, block_size_, 2) = 4

(* ================================================================== *)
(* Engines under every configuration                                   *)
(* ================================================================== *)

MaxCfgLen == 3

(* every AlgorithmConfig: each flag either way, block_size default, 1, up  *)
(* to the longest array and one beyond                                     *)
AllConfigs ==
    [enable_caching : BOOLEAN, enable_parallel : BOOLEAN, track_statistics : BOOLEAN,
     block_size : 0..(MaxCfgLen + 1)]

CfgArrays == UNION {[0..(n - 1) -> Values] : n \in 0..MaxCfgLen}

InitConfig ==
    /\ kind \in Kinds
    /\ config \in AllConfigs
    /\ data_ = EmptyVec /\ preprocessed_ = FALSE /\ last_query_time_ = "zero"
    /\ DerivedEmpty
    /\ ref_data_ = EmptyVec /\ ref_preprocessed_ = FALSE
    /\ last = NoCall

NextConfig ==
    \/ \E data \in CfgArrays : Preprocess(data)
    \/ \E left \in 0..MaxCfgLen, right \in 0..MaxCfgLen : Query(left, right)
    \/ \E left \in 0..MaxCfgLen, right \in 0..MaxCfgLen : QueryDetailed(left, right)
    \/ \E index \in 0..MaxCfgLen, value \in Values : Update(index, value)
    \/ Return

SpecConfig == InitConfig /\ [][NextConfig]_vars

(* C21: whatever the configuration (each flag either way, block_size       *)
(* default, 1, n or above n), query and queryDetailed of every engine      *)
(* return what a default-configured engine given the same preprocess and   *)
(* update calls returns, which is the minimum of the range and its lowest  *)
(* index.                                                                  *)
C21_ConfigNeverChangesAnswers ==
    preprocessed_ =>
        /\ ref_preprocessed_
        /\ \A left \in Indices, right \in Indices :
              /\ query(left, right) = refQuery(left, right)
              /\ queryDetailed(left, right) = refQueryDetailed(left, right)
              /\ query(left, right) = AnswerOn(data_, left, right)
              /\ queryDetailed(left, right) = DetailedAnswerOn(data_, left, right)

(* a Block engine with every flag set and block_size 1: three blocks of    *)
(* one element, the minimum in the middle one                              *)
C21_Witness ==
    /\ kind = "BLOCK_DECOMPOSITION" /\ preprocessed_
    /\ config = [enable_caching |-> TRUE, enable_parallel |-> TRUE,
                 track_statistics |-> TRUE, block_size |-> 1]
    /\ num_blocks_ = 3
    /\ data_ = [i \in 0..2 |-> IF i = 1 THEN 0 ELSE 1]
    /\ last.op = "queryDetailed" /\ last.args = <<0, 2>>
    /\ last.status = "ok" /\ last.ret = <<0, 1>>

UpdatingKinds == {"NAIVE", "BLOCK_DECOMPOSITION"}

(* an update call that ends in NotSupported *)
UpdateRefused ==
    \E index \in Indices, value \in Values :
        Update(index, value) /\ last'.status = "NotSupported"

FloorLog2(k) == CHOOSE p \in 0..k : Pow2(p) <= k /\ k < Pow2(p + 1)

(* C23: after a successful preprocess of n elements on the Sparse Table    *)
(* engine, getLevels() is floor(log2(n)) + 1 and log_table[k] is           *)
(* floor(log2(k)) for every k from 1 to n.                                 *)
C23_LevelsAndLogTable ==
    (kind = "SPARSE_TABLE" /\ preprocessed_) =>
        /\ size >= 1
        /\ getLevels = FloorLog2(size) + 1
        /\ \A k \in 1..size : log_table_[k] = FloorLog2(k)
        /\ (\E p \in 0..size : size = Pow2(p)) =>
               getLevels = (CHOOSE p \in 0..size : size = Pow2(p)) + 1

(* a Sparse engine just preprocessed with 4 = 2^2 elements: 3 levels *)
C23_Witness ==
    /\ kind = "SPARSE_TABLE" /\ preprocessed_
    /\ last.op = "preprocess" /\ last.status = "ok"
    /\ size = 4 /\ getLevels = 3
    /\ log_table_[3] = 1 /\ log_table_[4] = 2

(* the stored pair of every block is the minimum of the current array     *)
(* over the block and the lowest index of the block attaining it          *)
BlockMinimaCurrent ==
    \A b \in 0..(num_blocks_ - 1) :
        LET lo == b * block_size_
            hi == IF (b + 1) * block_size_ <= size THEN (b + 1) * block_size_ - 1
                  ELSE size - 1
        IN  /\ \A i \in lo..hi : block_min_[b] <= data_[i]
            /\ block_min_index_[b] \in lo..hi
            /\ data_[block_min_index_[b]] = block_min_[b]
            /\ \A i \in lo..(block_min_index_[b] - 1) : data_[i] > block_min_[b]

BlockWriters == {"preprocess", "update", "batchUpdate", "rebuildBlocks"}

(* C24: on a preprocessed Block engine, after every successful preprocess, *)
(* update, batchUpdate or rebuildBlocks each block's stored minimum is the *)
(* minimum of the current array over the block and its stored argmin the   *)
(* lowest index of the block attaining it, in particular after an update   *)
(* that raises the element that was the block's minimum.                   *)
C24_BlockMinimaFollowArray ==
    [][/\ (kind = "BLOCK_DECOMPOSITION" /\ last'.op \in BlockWriters
             /\ last'.status = "ok" /\ preprocessed_') => BlockMinimaCurrent'
       /\ \A index \in Indices, value \in Values :
             (/\ kind = "BLOCK_DECOMPOSITION" /\ preprocessed_
              /\ last'.op = "update" /\ last'.args = <<index, value>>
              /\ last'.status = "ok"
              /\ block_min_index_[index \div block_size_] = index
              /\ value > block_min_[index \div block_size_])
             => /\ block_min_index_'[index \div block_size_] # index
                   \/ block_min_'[index \div block_size_] = value
                /\ BlockMinimaCurrent']_vars

(* update(0, 1) has raised the first element of a two-element block whose  *)
(* other element is 0: the stored argmin of block 0 is now index 1         *)
C24_Witness ==
    /\ kind = "BLOCK_DECOMPOSITION" /\ preprocessed_
    /\ last.op = "update" /\ last.args = <<0, 1>> /\ last.status = "ok"
    /\ block_size_ = 2 /\ size >= 3
    /\ data_[0] = 1 /\ data_[1] = 0
    /\ block_min_[0] = 0 /\ block_min_index_[0] = 1

(* entry [i][j] of the sparse table is defined: the window of 2^j         *)
(* elements starting at i lies within the array                           *)
SparseDefined(i, j) == j \in 0..(max_level_ - 1) /\ i >= 0 /\ i + Pow2(j) <= size

(* C25: after a successful preprocess on the Sparse Table engine every     *)
(* defined entry sparse_table[i][j] is the minimum of A[i..i+2^j-1] and    *)
(* index_table[i][j] the lowest index of that window attaining it; both    *)
(* entries a valid query reads are defined entries; verifyTable() is true. *)
C25_SparseTableEntries ==
    (kind = "SPARSE_TABLE" /\ preprocessed_) =>
        /\ \A j \in 0..(max_level_ - 1) : \A i \in 0..(size - 1) :
              SparseDefined(i, j) =>
                  /\ \A x \in i..(i + Pow2(j) - 1) : sparse_table_[i][j] <= data_[x]
                  /\ index_table_[i][j] \in i..(i + Pow2(j) - 1)
                  /\ data_[index_table_[i][j]] = sparse_table_[i][j]
                  /\ \A x \in i..(index_table_[i][j] - 1) : data_[x] > sparse_table_[i][j]
        /\ \A left, right \in 0..(size - 1) :
              left <= right =>
                  LET k == log_table_[right - left + 1]
                  IN  /\ k = FloorLog2(right - left + 1)
                      /\ SparseDefined(left, k)
                      /\ SparseDefined(right - Pow2(k) + 1, k)
        /\ verifyTable

(* a Sparse engine over five elements has answered query(0, 4) from the    *)
(* entries [0][2] and [1][2]; the window of [1][2] has its minimum at 3    *)
C25_Witness ==
    /\ kind = "SPARSE_TABLE" /\ preprocessed_ /\ size = 5
    /\ last.op = "query" /\ last.args = <<0, 4>> /\ last.status = "ok"
    /\ log_table_[5] = 2
    /\ data_[1] = 1 /\ data_[2] = 1 /\ data_[3] = 0
    /\ sparse_table_[1][2] = 0 /\ index_table_[1][2] = 3
    /\ verifyTable

(* every entry on or above the diagonal is the minimum of its range and   *)
(* the lowest index attaining it                                          *)
DPUpperTriangle ==
    \A i, j \in 0..(size - 1) :
        i <= j =>
            /\ \A x \in i..j : dp_table_[i][j] <= data_[x]
            /\ min_index_table_[i][j] \in i..j
            /\ data_[min_index_table_[i][j]] = dp_table_[i][j]
            /\ \A x \in i..(min_index_table_[i][j] - 1) : data_[x] > dp_table_[i][j]

QueryOps == {"query", "queryDetailed"}

(* C26: after a successful preprocess of n elements on the DP engine       *)
(* dp_table[i][j] is the minimum of A[i..j] and min_index_table[i][j] the  *)
(* lowest index attaining it for all 0 <= i <= j < n, getTableSize() is    *)
(* n * n, and a query that passes validation reads entry [left][right]     *)
(* with left <= right only.                                                *)
C26_DPTable ==
    [][(kind = "DYNAMIC_PROGRAMMING" /\ preprocessed_') =>
          /\ DPUpperTriangle'
          /\ getTableSize' = size' * size'
          /\ (last'.op \in QueryOps /\ last'.status = "ok") =>
                 /\ last'.args[1] <= last'.args[2]
                 /\ last'.args[2] < size
                 /\ last'.ret[1] = dp_table_[last'.args[1]][last'.args[2]]]_vars

(* a DP engine over <<1, 0, 0>> has answered queryDetailed(0, 2) from      *)
(* entry [0][2]: minimum 0, first at index 1; the table has 9 entries      *)
C26_Witness ==
    /\ kind = "DYNAMIC_PROGRAMMING" /\ preprocessed_ /\ size = 3
    /\ last.op = "queryDetailed" /\ last.args = <<0, 2>> /\ last.status = "ok"
    /\ data_ = [i \in 0..2 |-> IF i = 0 THEN 1 ELSE 0]
    /\ dp_table_[0][2] = 0 /\ min_index_table_[0][2] = 1
    /\ getTableSize = 9

(* ================================================================== *)
(* The LCA engine over arrays with enough values for every tree shape  *)
(* ================================================================== *)

MaxTreeLen == 4

MaxTreeVal == 3

TreeArrays == UNION {[0..(n - 1) -> 0..MaxTreeVal] : n \in 0..MaxTreeLen}

InitTree ==
    /\ kind = "LCA_BASED"
    /\ config \in Configs /\ config.block_size = DEFAULT_BLOCK_SIZE
    /\ data_ = EmptyVec /\ preprocessed_ = FALSE /\ last_query_time_ = "zero"
    /\ DerivedEmpty
    /\ ref_data_ = EmptyVec /\ ref_preprocessed_ = FALSE
    /\ last = NoCall

NextTree ==
    \/ \E data \in TreeArrays : Preprocess(data)
    \/ \E left \in 0..MaxTreeLen, right \in 0..MaxTreeLen : QueryDetailed(left, right)
    \/ Return

SpecTree == InitTree /\ [][NextTree]_vars

(* the least p with 2^p >= n, for n >= 1 *)
CeilLog2(n) == CHOOSE p \in 0..n : Pow2(p) >= n /\ (p = 0 \/ Pow2(p - 1) < n)

(* the node m parent links above node v, NO_NODE when the links run out *)
RECURSIVE StepsUp(_, _)
StepsUp(v, m) ==
    IF v = NO_NODE THEN NO_NODE
    ELSE IF m = 0 THEN v
    ELSE StepsUp(tree_nodes_[v].parent, m - 1)

ProperAncestors(v) == AncestorsOf(v, Size(tree_nodes_)) \ {v}

StrictlyIncreasing(d) == \A i \in DOMAIN d : \A j \in DOMAIN d : i < j => d[i] < d[j]

(* C27: after a successful preprocess of n elements on the LCA engine the  *)
(* ancestor table has ceil(log2(n)) + 1 levels, ancestors[v][k] is the     *)
(* 2^k-th ancestor of v or -1 when v has fewer than 2^k ancestors, each    *)
(* node's depth is the number of its proper ancestors, and a strictly      *)
(* increasing array of n elements gives tree depth n - 1.                  *)
C27_AncestorTableAndDepths ==
    (kind = "LCA_BASED" /\ preprocessed_) =>
        /\ max_log_ = CeilLog2(size) + 1
        /\ DOMAIN ancestors_ = 0..(size - 1)
        /\ \A v \in 0..(size - 1) :
              /\ DOMAIN ancestors_[v] = 0..(max_log_ - 1)
              /\ \A k \in 0..(max_log_ - 1) :
                    /\ ancestors_[v][k] = StepsUp(v, Pow2(k))
                    /\ ancestors_[v][k] = NO_NODE <=>
                           Cardinality(ProperAncestors(v)) < Pow2(k)
              /\ tree_nodes_[v].depth = Cardinality(ProperAncestors(v))
        /\ tree_nodes_[root_index_].depth = 0
        /\ StrictlyIncreasing(data_) => getTreeDepth = size - 1

(* the LCA engine just preprocessed with <<0, 1, 2, 3>>: a chain of depth  *)
(* 3 under three levels; node 3 has a second ancestor and no fourth        *)
C27_Witness ==
    /\ kind = "LCA_BASED" /\ preprocessed_
    /\ last.op = "preprocess" /\ last.status = "ok"
    /\ data_ = [i \in 0..3 |-> i]
    /\ max_log_ = 3 /\ getTreeDepth = 3
    /\ ancestors_[3][0] = 2 /\ ancestors_[3][1] = 1 /\ ancestors_[3][2] = NO_NODE

(* the array and the block pairs of the engine *)
UpdatableState == [d |-> data_, bmin |-> block_min_, bidx |-> block_min_index_]

(* what one successful update(index, value) makes of them: the element    *)
(* written and, on the Block engine, the owning block rescanned           *)
AfterUpdate(st, index, value) ==
    LET d == [st.d EXCEPT ![index] = value]
        b == index \div block_size_
        lo == b * block_size_
        hi == Min2((b + 1) * block_size_, Size(d)) - 1
    IN  IF kind = "BLOCK_DECOMPOSITION"
        THEN [d |-> d,
              bmin |-> [st.bmin EXCEPT ![b] = RangeMin(d, lo, hi)],
              bidx |-> [st.bidx EXCEPT ![b] = FirstArgMin(d, lo, hi)]]
        ELSE [st EXCEPT !.d = d]

(* update called once for each pair of the list, from pair k on *)
RECURSIVE AfterUpdates(_, _, _)
AfterUpdates(st, updates, k) ==
    IF k > Len(updates) THEN st
    ELSE AfterUpdates(AfterUpdate(st, updates[k][1], updates[k][2]), updates, k + 1)

(* C28: on the Naive and Block engines a successful batchUpdate(list)      *)
(* leaves the array, the block minima and the argmins as calling           *)
(* update(i, v) once for each pair in list order leaves them; the last     *)
(* pair of an index that occurs several times gives its final value; an    *)
(* empty list changes nothing.                                             *)
C28_BatchIsUpdatesInOrder ==
    [][/\ \A index \in Indices, value \in Values :
             (last'.op = "update" /\ last'.status = "ok"
                  /\ last'.args = <<index, value>>) =>
                 UpdatableState' = AfterUpdate(UpdatableState, index, value)
       /\ \A updates \in UpdateLists :
             (last'.op = "batchUpdate" /\ last'.status = "ok"
                  /\ last'.args = <<updates>>) =>
                 /\ kind \in {"NAIVE", "BLOCK_DECOMPOSITION"}
                 /\ UpdatableState' = AfterUpdates(UpdatableState, updates, 1)
                 /\ UNCHANGED <<preprocessed_, block_size_, num_blocks_>>
                 /\ \A k \in DOMAIN updates :
                       (\A m \in DOMAIN updates : m > k => updates[m][1] # updates[k][1])
                           => data_'[updates[k][1]] = updates[k][2]
                 /\ updates = <<>> => UNCHANGED engineVars]_vars

(* a Block engine after batchUpdate of <<(1, 0), (1, 1)>>: element 1 holds *)
(* the value of the last pair                                              *)
C28_Witness ==
    /\ kind = "BLOCK_DECOMPOSITION" /\ preprocessed_
    /\ block_size_ = 2 /\ size >= 3
    /\ last.op = "batchUpdate" /\ last.status = "ok"
    /\ last.args = << << <<1, 0>>, <<1, 1>> >> >>
    /\ data_[0] = 1 /\ data_[1] = 1
    /\ block_min_[0] = 1 /\ block_min_index_[0] = 0

(* what the engine shows through its read-only getters *)
Observable ==
    [size |-> size, preprocessed |-> isPreprocessed,
     blocks |-> <<getBlockSize, getNumBlocks>>, levels |-> getLevels,
     entries |-> <<getTableEntries, getTableSize, getTreeSize>>]

(* C29: query and queryDetailed, succeeding or failing, leave the stored   *)
(* array, every derived structure, size() and isPreprocessed() unchanged,  *)
(* and the same query asked again returns the same value and index.        *)
C29_QueriesChangeNothing ==
    [][last'.op \in QueryOps =>
          /\ UNCHANGED <<data_, preprocessed_, derivedVars>>
          /\ Observable' = Observable
          /\ \A left \in Indices, right \in Indices :
                last'.args = <<left, right>> =>
                    [status |-> last'.status, ret |-> last'.ret] =
                        IF last'.op = "query" THEN query(left, right)'
                        ELSE queryDetailed(left, right)']_vars

(* an LCA engine that has answered a query before has now refused one      *)
(* whose right end is past the array, and is still preprocessed            *)
C29_Witness ==
    /\ kind = "LCA_BASED" /\ preprocessed_ /\ size = 3
    /\ last_query_time_ = "measured"
    /\ last.op = "query" /\ last.args = <<1, 3>> /\ last.status # "ok"
    /\ query(0, 2).status = "ok"

(* ================================================================== *)
(* RMQFactory                                                          *)
(* ================================================================== *)

MaxFactorySize == 30

MaxFactoryQueries == 12

MaxFactoryLog == 10

(* array sizes: the small ones, the last size DP takes unasked, and two    *)
(* powers of two above it, for which log2 is exact                         *)
FactorySizes == (0..MaxFactorySize) \cup {100, 128, 1024}

(* query counts: the small ones and those around sqrt(n), n * 10 and       *)
(* n * log2(n) of the two large sizes                                      *)
FactoryQueries == (0..MaxFactoryQueries) \cup {31, 32, 896, 897, 1280, 1281, 10240, 10241}

(* std::log2 of a power of two *)
Log2OfPow2(n) == CHOOSE p \in 0..MaxFactoryLog : Pow2(p) = n

(* RMQFactory::create: the engine class, which the model names by its kind *)
create(type) ==
    CASE type = "NAIVE" -> "NAIVE"
      [] type = "DYNAMIC_PROGRAMMING" -> "DYNAMIC_PROGRAMMING"
      [] type = "SPARSE_TABLE" -> "SPARSE_TABLE"
      [] type = "BLOCK_DECOMPOSITION" -> "BLOCK_DECOMPOSITION"
      [] type = "LCA_BASED" -> "LCA_BASED"

(* getType() of an engine of class k: its ALGORITHM_TYPE *)
getType(k) ==
    CASE k = "NAIVE" -> "NAIVE"
      [] k = "DYNAMIC_PROGRAMMING" -> "DYNAMIC_PROGRAMMING"
      [] k = "SPARSE_TABLE" -> "SPARSE_TABLE"
      [] k = "BLOCK_DECOMPOSITION" -> "BLOCK_DECOMPOSITION"
      [] k = "LCA_BASED" -> "LCA_BASED"

supportsFeature(type, feature) ==
    IF feature = "update" THEN type = "NAIVE" \/ type = "BLOCK_DECOMPOSITION"
    ELSE IF feature = "O(1) query" THEN type = "DYNAMIC_PROGRAMMING" \/ type = "SPARSE_TABLE"
    ELSE IF feature = "O(n) space" THEN type = "NAIVE" \/ type = "BLOCK_DECOMPOSITION"
    ELSE IF feature = "O(1) preprocessing" THEN type = "NAIVE"
    ELSE FALSE

recommendAlgorithm_SmallArraysFirst(array_size, expected_queries, requires_updates) ==
    IF array_size <= 100 THEN "DYNAMIC_PROGRAMMING"
    ELSE IF requires_updates
    THEN IF expected_queries < array_size \div 10 THEN "NAIVE" ELSE "BLOCK_DECOMPOSITION"
    ELSE IF array_size <= 1000 /\ expected_queries > array_size * 10 THEN "DYNAMIC_PROGRAMMING"
    ELSE IF expected_queries * expected_queries < array_size THEN "NAIVE"
    ELSE IF expected_queries > array_size * Log2OfPow2(array_size) THEN "SPARSE_TABLE"
    ELSE "BLOCK_DECOMPOSITION"

(* expected_queries < std::sqrt(array_size) is q * q < n on these integers *)
recommendAlgorithm(array_size, expected_queries, requires_updates) ==
    IF requires_updates
    THEN IF expected_queries < array_size \div 10 THEN "NAIVE" ELSE "BLOCK_DECOMPOSITION"
    ELSE IF array_size <= 100 THEN "DYNAMIC_PROGRAMMING"
    ELSE IF array_size <= 1000 /\ expected_queries > array_size * 10 THEN "DYNAMIC_PROGRAMMING"
    ELSE IF expected_queries * expected_queries < array_size THEN "NAIVE"
    ELSE IF expected_queries > array_size * Log2OfPow2(array_size) THEN "SPARSE_TABLE"
    ELSE "BLOCK_DECOMPOSITION"

(* a call of the static selector: no engine is touched *)
RecommendAlgorithm(array_size, expected_queries, requires_updates) ==
    /\ last.op = "none"
    /\ last' = Call("recommendAlgorithm", <<array_size, expected_queries, requires_updates>>,
                    [status |-> "ok",
                     ret |-> <<recommendAlgorithm(array_size, expected_queries,
                                                  requires_updates)>>],
                    NotCalled)
    /\ UNCHANGED <<ctorVars, engineVars, refVars>>

(* RMQFactory::create(type, cfg): a new, empty engine of the class of type *)
Create(type, cfg) ==
    /\ last.op = "none"
    /\ kind' = create(type)
    /\ config' = cfg
    /\ clear
    /\ RefClear
    /\ last' = Call("create", <<type>>, Done, NotCalled)

InitFactory ==
    /\ kind \in Kinds
    /\ config \in Configs
    /\ data_ = EmptyVec /\ preprocessed_ = FALSE /\ last_query_time_ = "zero"
    /\ DerivedEmpty
    /\ ref_data_ = EmptyVec /\ ref_preprocessed_ = FALSE
    /\ last = NoCall

NextFactory ==
    \/ \E array_size \in FactorySizes, expected_queries \in FactoryQueries,
          requires_updates \in BOOLEAN :
           RecommendAlgorithm(array_size, expected_queries, requires_updates)
    \/ \E type \in Kinds, cfg \in Configs : Create(type, cfg)
    \/ Return

SpecFactory == InitFactory /\ [][NextFactory]_vars

(* C30: recommendAlgorithm returns a value fixed by (array_size,           *)
(* expected_queries, requires_updates); with requires_updates it is NAIVE  *)
(* when expected_queries < array_size / 10 (integer division) and          *)
(* BLOCK_DECOMPOSITION otherwise, a kind whose engine as built by create   *)
(* reports supportsUpdate() true and getType() equal to that kind.         *)
C30_RecommendedSupportsUpdate ==
    [][/\ \A n \in FactorySizes, q \in FactoryQueries, u \in BOOLEAN :
             (last'.op = "recommendAlgorithm" /\ last'.args = <<n, q, u>>) =>
                 /\ last'.status = "ok"
                 /\ \A other \in Kinds :
                       last'.ret = <<other>> <=> other = recommendAlgorithm(n, q, u)
                 /\ UNCHANGED <<ctorVars, engineVars>>
                 /\ u => /\ q * 10 + 9 < n => last'.ret = <<"NAIVE">>
                         /\ q * 10 + 9 >= n => last'.ret = <<"BLOCK_DECOMPOSITION">>
                         /\ supportsUpdate(create(last'.ret[1]))
                         /\ supportsFeature(last'.ret[1], "update")
                         /\ getType(create(last'.ret[1])) = last'.ret[1]
       /\ \A type \in Kinds :
             (last'.op = "create" /\ last'.args = <<type>>) =>
                 /\ getType(kind') = type
                 /\ supportsUpdate(kind') <=> supportsFeature(type, "update")
                 /\ ~isPreprocessed' /\ size' = 0]_vars

(* 29 elements, 2 queries, updates required: 2 < 29 / 10 = 2 fails, so the *)
(* selector has returned BLOCK_DECOMPOSITION                               *)
C30_Witness ==
    /\ last.op = "recommendAlgorithm" /\ last.args = <<29, 2, TRUE>>
    /\ last.status = "ok" /\ last.ret = <<"BLOCK_DECOMPOSITION">>
    /\ supportsUpdate(create(last.ret[1]))

====
